---------------------------- MODULE Spec2Model ----------------------------
(***************************************************************************)
(* Model of lpa-input's spatial analysis (lpa/input/analyze.py) and of the *)
(* parts of sets.py, geometries.py, boundaries.py and overlap.py it calls. *)
(*                                                                         *)
(* Positions are points of the integer lattice, so squared distances and   *)
(* neighbour counts are exact integers.  Every other quantity is a number  *)
(* record (see Fin below): an exact value q * pi^e with q rational, or one *)
(* of the float values NaN, +inf, -inf, or a finite value the records      *)
(* cannot express exactly ("irr": sums of different powers of pi, arccos   *)
(* and square-root terms).  Float rounding is not modelled.                *)
(***************************************************************************)
EXTENDS Integers, Sequences, FiniteSets, TLC

VARIABLES
    args,   \* the arguments the Distribution is constructed with
    dist,   \* the Distribution object under analysis (NoDist before construction)
    call,   \* the call under way: function name and arguments
    ret     \* what that call returned or raised (Pending before it is made)

vars == <<args, dist, call, ret>>

-----------------------------------------------------------------------------
(* Numbers *)

Abs(x) == IF x < 0 THEN -x ELSE x

Sign(x) == IF x < 0 THEN -1 ELSE IF x > 0 THEN 1 ELSE 0

Max2(x, y) == IF x >= y THEN x ELSE y

RECURSIVE GCD(_, _)
GCD(x, y) == IF y = 0 THEN x ELSE GCD(y, x % y)

\* the value (n/d) * pi^e in lowest terms; zero has one representation
Fin(n, d, e) ==
    IF n = 0 THEN [t |-> "fin", n |-> 0, d |-> 1, e |-> 0]
    ELSE LET g == GCD(Abs(n), Abs(d))
         IN  [t |-> "fin", n |-> Sign(d) * (n \div g), d |-> Abs(d) \div g, e |-> e]

Int2Num(k) == Fin(k, 1, 0)

Zero == Int2Num(0)

One == Int2Num(1)

NaN == [t |-> "nan", n |-> 0, d |-> 1, e |-> 0]

\* +inf (sgn = 1) or -inf (sgn = -1)
Inf(sgn) == [t |-> "inf", n |-> sgn, d |-> 1, e |-> 0]

\* a finite float whose exact value a number record cannot express
Irr == [t |-> "irr", n |-> 0, d |-> 1, e |-> 0]

\* pi^k
PiPow(k) == Fin(1, 1, k)

IsNaN(x) == x.t = "nan"

IsFinite(x) == x.t \in {"fin", "irr"}

RNeg(x) ==
    IF x.t = "fin" THEN Fin(-x.n, x.d, x.e)
    ELSE IF x.t = "inf" THEN Inf(-x.n)
    ELSE x

RAdd(x, y) ==
    IF x.t = "nan" \/ y.t = "nan" THEN NaN
    ELSE IF x.t = "inf" /\ y.t = "inf" THEN (IF x.n = y.n THEN x ELSE NaN)
    ELSE IF x.t = "inf" THEN x
    ELSE IF y.t = "inf" THEN y
    ELSE IF x.t = "irr" \/ y.t = "irr" THEN Irr
    ELSE IF x.n = 0 THEN y
    ELSE IF y.n = 0 THEN x
    ELSE IF x.e # y.e THEN Irr
    ELSE Fin(x.n * y.d + y.n * x.d, x.d * y.d, x.e)

RSub(x, y) == RAdd(x, RNeg(y))

RMul(x, y) ==
    IF x.t = "nan" \/ y.t = "nan" THEN NaN
    ELSE IF x.t = "inf" \/ y.t = "inf" THEN
        (IF (x.t = "fin" /\ x.n = 0) \/ (y.t = "fin" /\ y.n = 0) THEN NaN
         ELSE IF x.t = "irr" \/ y.t = "irr" THEN Irr
         ELSE Inf(Sign(x.n) * Sign(y.n)))
    ELSE IF (x.t = "fin" /\ x.n = 0) \/ (y.t = "fin" /\ y.n = 0) THEN Zero
    ELSE IF x.t = "irr" \/ y.t = "irr" THEN Irr
    ELSE Fin(x.n * y.n, x.d * y.d, x.e + y.e)

\* float division: x/0 is +-inf, 0/0 and inf/inf are NaN (numpy only warns)
RDiv(x, y) ==
    IF x.t = "nan" \/ y.t = "nan" THEN NaN
    ELSE IF y.t = "inf" THEN (IF x.t = "inf" THEN NaN ELSE Zero)
    ELSE IF y.t = "fin" /\ y.n = 0 THEN
        (IF x.t = "fin" /\ x.n = 0 THEN NaN
         ELSE IF x.t = "irr" THEN Irr
         ELSE Inf(Sign(x.n)))
    ELSE IF x.t = "inf" THEN (IF y.t = "irr" THEN Irr ELSE Inf(x.n * Sign(y.n)))
    ELSE IF x.t = "fin" /\ x.n = 0 THEN Zero
    ELSE IF x.t = "irr" \/ y.t = "irr" THEN Irr
    ELSE Fin(x.n * y.d, x.d * y.n, x.e - y.e)

-----------------------------------------------------------------------------
(* Sequences (numpy arrays) *)

Range(s) == {s[i] : i \in 1..Len(s)}

Last(s) == s[Len(s)]

\* the tuple <<f[1], ..., f[n]>>
RECURSIVE Tabulate(_, _)
Tabulate(f, n) == IF n = 0 THEN <<>> ELSE Append(Tabulate(f, n - 1), f[n])

\* np.zeros(n), np.ones(n)
Zeros(n) == [k \in 1..n |-> Zero]

Ones(n) == [k \in 1..n |-> One]

\* np.cumsum of an integer array
RECURSIVE CumSum(_)
CumSum(s) ==
    IF Len(s) = 0 THEN <<>>
    ELSE LET h == CumSum(SubSeq(s, 1, Len(s) - 1))
         IN  Append(h, (IF Len(h) = 0 THEN 0 ELSE Last(h)) + Last(s))

\* an exception raised instead of a value
Raise(e) == [ok |-> FALSE, err |-> e]

Return(v) == [ok |-> TRUE, val |-> v]

-----------------------------------------------------------------------------
(* analyze.N and analyze.M *)

\* squared distances of the points of B to a (analyze.py line 48)
SqDist(a, b) == (b[1] - a[1]) * (b[1] - a[1]) + (b[2] - a[2]) * (b[2] - a[2])

\* the loop of N: i browses the sorted distances, j the radii, dn the bins
RECURSIVE NLoop(_, _, _, _, _)
NLoop(d2, r2, i, j, dn) ==
    IF i > Len(d2) THEN Return(CumSum(dn))
    ELSE IF j > Len(r2) THEN Raise("IndexError")
    ELSE IF d2[i] > r2[j] THEN NLoop(d2, r2, i, j + 1, dn)
    ELSE NLoop(d2, r2, i + 1, j, [dn EXCEPT ![j] = @ + 1])

\* N with the filter d2>0 dropped: a point coinciding with a is counted
N_CountsCenter(a, B, r2) ==
    IF Len(r2) = 0 THEN Raise("IndexError")
    ELSE LET all == [i \in 1..Len(B) |-> SqDist(a, B[i])]
             kept == SelectSeq(all, LAMBDA x : x <= Last(r2))
             d2 == SortSeq(kept, LAMBDA x, y : x < y)
         IN  NLoop(d2, r2, 1, 1, Tabulate([k \in 1..Len(r2) |-> 0], Len(r2)))

\* N without the filter d2<=r2[-1]: the points beyond the last radius are
\* browsed too
N_Unfiltered(a, B, r2) ==
    IF Len(r2) = 0 THEN Raise("IndexError")
    ELSE LET all == [i \in 1..Len(B) |-> SqDist(a, B[i])]
             kept == SelectSeq(all, LAMBDA x : x > 0)
             d2 == SortSeq(kept, LAMBDA x, y : x < y)
         IN  NLoop(d2, r2, 1, 1, Tabulate([k \in 1..Len(r2) |-> 0], Len(r2)))

\* N(a, B, r2): number of points of B in the neighborhoods of a
N(a, B, r2) ==
    IF Len(r2) = 0 THEN Raise("IndexError")
    ELSE LET all == [i \in 1..Len(B) |-> SqDist(a, B[i])]
             kept == SelectSeq(all, LAMBDA x : x <= Last(r2) /\ x > 0)
             d2 == SortSeq(kept, LAMBDA x, y : x < y)
         IN  NLoop(d2, r2, 1, 1, Tabulate([k \in 1..Len(r2) |-> 0], Len(r2)))

\* sumN += n for an integer array n, with numpy's broadcast of a length 1
AddCounts(sumN, n) ==
    [k \in 1..Len(sumN) |->
        RAdd(sumN[k], Int2Num(IF Len(n) = 1 THEN n[1] ELSE n[k]))]

\* sumw += w for the array a weighting function returned
AddWeights(sumw, w) == [k \in 1..Len(sumw) |-> RAdd(sumw[k], w[k])]

\* the loop of M over the centers A[i..]; w maps a center to its weights
RECURSIVE MLoop(_, _, _, _, _, _, _)
MLoop(A, B, w, r2, i, sumN, sumw) ==
    IF i > Len(A)
    THEN Return(Tabulate([k \in 1..Len(sumN) |-> RDiv(sumN[k], sumw[k])], Len(sumN)))
    ELSE LET n == N(A[i], B, r2)
         IN  IF ~n.ok THEN n
             ELSE IF Len(n.val) # Len(sumN) /\ Len(n.val) # 1
                  THEN Raise("ValueError")
             ELSE MLoop(A, B, w, r2, i + 1,
                        AddCounts(sumN, n.val), AddWeights(sumw, w[A[i]]))

\* M(A, B, w, r, r2): N(a, B, r2) averaged over the points a of A
M(A, B, w, r, r2) == MLoop(A, B, w, r2, 1, Zeros(Len(r)), Zeros(Len(r)))

-----------------------------------------------------------------------------
(* The incremental stages of analyze.py *)

\* np.gradient of a 1-D array with unit spacing: central differences inside,
\* one-sided differences at both ends; an array shorter than 2 is refused
Gradient(f) ==
    IF Len(f) < 2 THEN Raise("ValueError")
    ELSE Return(Tabulate(
        [k \in 1..Len(f) |->
            IF k = 1 THEN RSub(f[2], f[1])
            ELSE IF k = Len(f) THEN RSub(f[k], f[k - 1])
            ELSE RDiv(RSub(f[k + 1], f[k - 1]), Int2Num(2))], Len(f)))

\* np.gradient(X, axis=1) of stacked rows
GradientRows(X) ==
    IF \E i \in 1..Len(X) : ~Gradient(X[i]).ok THEN Raise("ValueError")
    ELSE Return(Tabulate([i \in 1..Len(X) |-> Gradient(X[i]).val], Len(X)))

\* X/y for stacked rows X and a scalar y
RowsOverScalar(X, y) ==
    Tabulate([i \in 1..Len(X) |->
        Tabulate([k \in 1..Len(X[i]) |-> RDiv(X[i][k], y)], Len(X[i]))], Len(X))

\* X/y for stacked rows X and an array y of the length of the rows
RowsOverArray(X, y) ==
    Tabulate([i \in 1..Len(X) |->
        Tabulate([k \in 1..Len(X[i]) |-> RDiv(X[i][k], y[k])], Len(X[i]))], Len(X))

\* KKKK_dp_dm dividing each row by the density of the sign of its centers
KKKK_ByCenterSign(MMMM, cp, cm, v) ==
    LET dp == RDiv(Int2Num(cp), v)
        dm == RDiv(Int2Num(cm), v)
    IN  Return(<<Tabulate([i \in 1..4 |->
                    Tabulate([k \in 1..Len(MMMM[i]) |->
                        RDiv(MMMM[i][k], IF i \in {1, 3} THEN dp ELSE dm)],
                        Len(MMMM[i]))], 4), dp, dm>>)

\* KKKK_dp_dm(MMMM, cp, cm, v): <<KKKK, dp, dm>>
KKKK_dp_dm(MMMM, cp, cm, v) ==
    LET dp == RDiv(Int2Num(cp), v)
        dm == RDiv(Int2Num(cm), v)
    IN  Return(<<RowsOverScalar(SubSeq(MMMM, 1, 2), dp)
                 \o RowsOverScalar(SubSeq(MMMM, 3, 4), dm), dp, dm>>)

\* x[0] = nan; x[-1] = nan
MaskEnds(x) == Tabulate([x EXCEPT ![1] = NaN, ![Len(x)] = NaN], Len(x))

\* pi^(n/2)/gamma(n/2+1), the n-volume of the unit ball
UnitBall(n) ==
    CASE n = 1 -> Int2Num(2)
      [] n = 2 -> PiPow(1)
      [] n = 3 -> Fin(4, 3, 1)

\* x**k for an integer x and k >= 0 (numpy: 0**0 = 1)
RECURSIVE IntPow(_, _)
IntPow(x, k) == IF k = 0 THEN 1 ELSE x * IntPow(x, k - 1)

\* the differential of the neighborhood volume before its ends are masked
RawdV(dr, r, n) ==
    [k \in 1..Len(r) |->
        RMul(RMul(UnitBall(n), Int2Num(n * IntPow(r[k], n - 1))), dr[k])]

\* gggg_dV_dKKKK written without the mask of the last value of dV
gggg_NoLastMask(KKKK, dr, r, n) ==
    IF Len(dr) # Len(r) THEN Raise("ValueError")
    ELSE IF Len(r) = 0 THEN Raise("IndexError")
    ELSE LET dV == Tabulate([RawdV(dr, r, n) EXCEPT ![1] = NaN], Len(r))
             dKKKK == GradientRows(KKKK)
         IN  IF ~dKKKK.ok THEN dKKKK
             ELSE IF \E i \in 1..Len(KKKK) : Len(KKKK[i]) # Len(r)
                  THEN Raise("ValueError")
             ELSE Return(<<RowsOverArray(dKKKK.val, dV), dV, dKKKK.val>>)

\* gggg_dV_dKKKK(KKKK, dr, r, n): <<gggg, dV, dKKKK>>
gggg_dV_dKKKK(KKKK, dr, r, n) ==
    IF Len(dr) # Len(r) THEN Raise("ValueError")
    ELSE IF Len(r) = 0 THEN Raise("IndexError")
    ELSE LET dV == Tabulate(MaskEnds(RawdV(dr, r, n)), Len(r))
             dKKKK == GradientRows(KKKK)
         IN  IF ~dKKKK.ok THEN dKKKK
             ELSE IF \E i \in 1..Len(KKKK) : Len(KKKK[i]) # Len(r)
                  THEN Raise("ValueError")
             ELSE Return(<<RowsOverArray(dKKKK.val, dV), dV, dKKKK.val>>)

\* cp*(x[a]-x[b]) + cm*(x[c]-x[d]) with sgn = -1, and with + for sgn = 1
Combine(x, cp, cm, sgn, L) ==
    Tabulate([k \in 1..L |->
        RAdd(RMul(Int2Num(cp), RAdd(x[1][k], RMul(Int2Num(sgn), x[3][k]))),
             RMul(Int2Num(cm), RAdd(x[4][k], RMul(Int2Num(sgn), x[2][k]))))], L)

\* GaGs_dMMMM(MMMM, dr, cp, cm): <<GaGs, dMMMM>>; the field dr is the content
\* of the caller's array dr when the function returns or raises (lines 339-340
\* write NaN into it)
GaGs_dMMMM(MMMM, dr, cp, cm) ==
    IF Len(dr) = 0 THEN [ok |-> FALSE, err |-> "IndexError", dr |-> dr]
    ELSE LET masked == Tabulate(MaskEnds(dr), Len(dr))
             dMMMM == GradientRows(MMMM)
         IN  IF ~dMMMM.ok
             THEN [ok |-> FALSE, err |-> dMMMM.err, dr |-> masked]
             ELSE IF \E i \in 1..Len(MMMM) : Len(MMMM[i]) # Len(dr)
             THEN [ok |-> FALSE, err |-> "ValueError", dr |-> masked]
             ELSE LET x == RowsOverArray(dMMMM.val, masked)
                      Ga == Combine(x, cp, cm, -1, Len(dr))
                      Gs == Combine(x, cp, cm, 1, Len(dr))
                  IN  [ok |-> TRUE, val |-> <<<<Ga, Gs>>, dMMMM.val>>, dr |-> masked]

-----------------------------------------------------------------------------
(* Input domains *)

\* largest number of points in an array of positions given to N or M
MaxB == 2

\* largest number of neighborhood radii
MaxLen == 2

\* lattice positions of the points given to N and M
Grid == (0..1) \X (0..2)

\* squared radii given to N and M
R2Vals == {0, 1, 2, 4}

SeqsUpTo(S, n) == UNION {[1..k -> S] : k \in 0..n}

NonEmptySeqsUpTo(S, n) == UNION {[1..k -> S] : k \in 1..n}

Ascending(s) == \A i \in 1..Len(s) - 1 : s[i] <= s[i + 1]

\* centers given to M in its direct calls
Centers == (0..1) \X (0..1)

\* arrays a weighting function returns in the direct calls of M, for n radii
WeightSeqs(n) ==
    { [k \in 1..n |-> One],
      [k \in 1..n |-> Int2Num(2)],
      [k \in 1..n |-> Int2Num(1 + (k % 2))] }

\* the sum of the first n entries of a sequence of numbers
RECURSIVE SumNum(_, _)
SumNum(s, n) == IF n = 0 THEN Zero ELSE RAdd(SumNum(s, n - 1), s[n])

NoArgs == [g |-> "none"]

NoDist == [g |-> "none"]

\* no call made yet
Pending == [ok |-> FALSE, err |-> "pending"]

\* the arguments of the direct calls of analyze.N
ArgsOfN ==
    \E a \in Centers, B \in SeqsUpTo(Grid, MaxB),
       r2 \in NonEmptySeqsUpTo(R2Vals, MaxLen) :
        call = [f |-> "N", a |-> a, B |-> B, r2 |-> r2]

\* the arguments of the direct calls of analyze.M, each with a weighting
\* function w
ArgsOfM ==
    \E A \in SeqsUpTo(Centers, MaxB), B \in SeqsUpTo(Grid, 1),
       r2 \in {x \in NonEmptySeqsUpTo(R2Vals, MaxLen) : Ascending(x)} :
        \E w \in [Range(A) -> WeightSeqs(Len(r2))] :
            call = [f |-> "M", A |-> A, B |-> B, w |-> w, r |-> r2, r2 |-> r2]

\* a direct call of analyze.N
CallN ==
    /\ call.f = "N" /\ ret = Pending
    /\ ret' = N(call.a, call.B, call.r2)
    /\ UNCHANGED <<args, dist, call>>

\* a direct call of analyze.M
CallM ==
    /\ call.f = "M" /\ ret = Pending
    /\ ret' = M(call.A, call.B, call.w, call.r, call.r2)
    /\ UNCHANGED <<args, dist, call>>

InitNM ==
    /\ args = NoArgs
    /\ dist = NoDist
    /\ ArgsOfN \/ ArgsOfM
    /\ ret = Pending

NextNM == CallN \/ CallM

\* direct calls of the counting functions N and M
SpecNM == InitNM /\ [][NextNM]_vars

-----------------------------------------------------------------------------
(* Claims on N and M, checked under SpecNM *)

\* the points of B at a squared distance of a in ]0, q]
Within(a, B, q) == {i \in 1..Len(B) : SqDist(a, B[i]) > 0 /\ SqDist(a, B[i]) <= q}

\* C1: for a non-empty ascending r2, entry k of N(a, B, r2) is the number of
\* points b of B with 0 < |b-a|^2 <= r2[k]: a point coinciding with a is not
\* counted and a point exactly at squared distance r2[k] is counted.
C1_NCounts ==
    (call.f = "N" /\ ret # Pending /\ Ascending(call.r2)) =>
        /\ ret.ok
        /\ Len(ret.val) = Len(call.r2)
        /\ \A k \in 1..Len(call.r2) :
              ret.val[k] = Cardinality(Within(call.a, call.B, call.r2[k]))

\* a call of N with a point of B on a, and another exactly at a radius
C1_Witness ==
    /\ call.f = "N"
    /\ Ascending(call.r2)
    /\ \E i \in 1..Len(call.B) : call.B[i] = call.a
    /\ \E i \in 1..Len(call.B), k \in 1..Len(call.r2) :
          /\ SqDist(call.a, call.B[i]) = call.r2[k]
          /\ call.r2[k] > 0
          /\ ret.ok /\ ret.val[k] >= 1

\* the counts N(A[i], B, r2)[k] of the centers, and their weights
CountAt(A, B, r2, k) ==
    [i \in 1..Len(A) |-> Int2Num(Cardinality(Within(A[i], B, r2[k])))]

WeightAt(A, w, k) == [i \in 1..Len(A) |-> w[A[i]][k]]

\* the average over the centers of the counts, each weighted by its own weight
WeightedAverage(A, B, w, r2, k) ==
    LET n == CountAt(A, B, r2, k)
        x == WeightAt(A, w, k)
    IN  RDiv(SumNum([i \in 1..Len(A) |-> RMul(x[i], n[i])], Len(A)),
             SumNum(x, Len(A)))

\* C2: M(A, B, w, r, r2)[k] is the weighted average over the centers a of
\* N(a, B, r2)[k], each count weighted by w(a, r, r2)[k] (with the weight 1,
\* the plain mean of the counts).
C2_MWeightedAverage ==
    (call.f = "M" /\ ret # Pending) =>
        /\ ret.ok
        /\ \A k \in 1..Len(call.r2) :
              ret.val[k] = WeightedAverage(call.A, call.B, call.w, call.r2, k)

-----------------------------------------------------------------------------
(* Direct calls of the stages KKKK_dp_dm, gggg_dV_dKKKK and GaGs_dMMMM *)

\* largest number of radii in the arrays given to the stages
MaxCols == 3

\* largest number of centers of one sign given to the stages
MaxCount == 2

\* rows of the stacked quantities given to the stages
RowVals(L) ==
    { [k \in 1..L |-> Zero],
      [k \in 1..L |-> Int2Num(k)],
      [k \in 1..L |-> Fin(k * k, 2, 0)],
      [k \in 1..L |-> IF k = 1 THEN NaN ELSE Int2Num(3)] }

\* radius steps given to the stages
DrVals(L) ==
    { [k \in 1..L |-> One],
      [k \in 1..L |-> Fin(k, 2, 0)],
      [k \in 1..L |-> Int2Num(k - 1)] }

\* radii given to the stages
RVals(L) == { [k \in 1..L |-> k - 1], [k \in 1..L |-> 2 * k] }

\* volumes of a region of interest: a square of side 3, a disk of radius 2
VVals == {Int2Num(9), Fin(4, 1, 1)}

ArgsOfKKKK ==
    \E L \in 1..MaxCols, cp \in 0..MaxCount, cm \in 0..MaxCount, v \in VVals :
        \E MMMM \in [1..4 -> RowVals(L)] :
            call = [f |-> "KKKK_dp_dm", MMMM |-> MMMM, cp |-> cp, cm |-> cm,
                    v |-> v]

Argsofgggg ==
    \E L \in 1..MaxCols, n \in 1..3 :
        \E KKKK \in [1..4 -> RowVals(L)], dr \in DrVals(L), r \in RVals(L) :
            call = [f |-> "gggg_dV_dKKKK", KKKK |-> KKKK, dr |-> dr, r |-> r,
                    n |-> n]

ArgsOfGaGs ==
    \E L \in 1..MaxCols, cp \in 0..MaxCount, cm \in 0..MaxCount :
        \E MMMM \in [1..4 -> RowVals(L)], dr \in DrVals(L) :
            call = [f |-> "GaGs_dMMMM", MMMM |-> MMMM, dr |-> dr, cp |-> cp,
                    cm |-> cm]

\* a direct call of analyze.KKKK_dp_dm
CallKKKK ==
    /\ call.f = "KKKK_dp_dm" /\ ret = Pending
    /\ ret' = KKKK_dp_dm(call.MMMM, call.cp, call.cm, call.v)
    /\ UNCHANGED <<args, dist, call>>

\* a direct call of analyze.gggg_dV_dKKKK
Callgggg ==
    /\ call.f = "gggg_dV_dKKKK" /\ ret = Pending
    /\ ret' = gggg_dV_dKKKK(call.KKKK, call.dr, call.r, call.n)
    /\ UNCHANGED <<args, dist, call>>

\* a direct call of analyze.GaGs_dMMMM
CallGaGs ==
    /\ call.f = "GaGs_dMMMM" /\ ret = Pending
    /\ ret' = GaGs_dMMMM(call.MMMM, call.dr, call.cp, call.cm)
    /\ UNCHANGED <<args, dist, call>>

InitStages ==
    /\ args = NoArgs
    /\ dist = NoDist
    /\ ArgsOfKKKK \/ Argsofgggg \/ ArgsOfGaGs
    /\ ret = Pending

NextStages == CallKKKK \/ Callgggg \/ CallGaGs

\* direct calls of the three stages that follow MMMM_cp_cm
SpecStages == InitStages /\ [][NextStages]_vars

-----------------------------------------------------------------------------
(* Claims on the stages, checked under SpecStages *)

\* C5: KKKK_dp_dm returns dp = cp/v, dm = cm/v and four rows in the order of
\* MMMM, rows 1 and 2 (M++, M-+) divided entry by entry by dp and rows 3 and 4
\* (M+-, M--) divided entry by entry by dm
C5_KKKKRescaling ==
    (call.f = "KKKK_dp_dm" /\ ret # Pending) =>
        /\ ret.ok
        /\ ret.val[2] = RDiv(Int2Num(call.cp), call.v)
        /\ ret.val[3] = RDiv(Int2Num(call.cm), call.v)
        /\ Len(ret.val[1]) = 4
        /\ \A i \in 1..4 :
            /\ Len(ret.val[1][i]) = Len(call.MMMM[i])
            /\ \A k \in 1..Len(call.MMMM[i]) :
                ret.val[1][i][k] =
                    RDiv(call.MMMM[i][k],
                         IF i <= 2 THEN ret.val[2] ELSE ret.val[3])

\* a call with different finite densities whose rows M-+ and M+- are rescaled
\* to finite non-zero values
C5_Witness ==
    /\ call.f = "KKKK_dp_dm" /\ ret # Pending /\ ret.ok
    /\ call.cp > 0 /\ call.cm > 0 /\ call.cp # call.cm
    /\ Len(call.MMMM[1]) >= 2
    /\ IsFinite(ret.val[1][2][2]) /\ ret.val[1][2][2] # Zero
    /\ IsFinite(ret.val[1][3][2]) /\ ret.val[1][3][2] # Zero
    /\ RMul(ret.val[1][2][2], ret.val[2]) = call.MMMM[2][2]
    /\ RMul(ret.val[1][3][2], ret.val[3]) = call.MMMM[3][2]

\* C6: whenever gggg_dV_dKKKK or GaGs_dMMMM returns, the first and the last
\* entry of every row of gggg, of Ga and of Gs is NaN
C6_EndpointsNaN ==
    (call.f \in {"gggg_dV_dKKKK", "GaGs_dMMMM"} /\ ret # Pending /\ ret.ok) =>
        \A i \in 1..Len(ret.val[1]) :
            /\ IsNaN(ret.val[1][i][1])
            /\ IsNaN(ret.val[1][i][Len(ret.val[1][i])])

\* gggg_dV_dKKKK has returned rows with a finite non-zero value strictly
\* inside, computed a non-zero one-sided difference of KKKK at the last radius
\* and was given a finite non-zero step there
C6_Witness ==
    /\ call.f = "gggg_dV_dKKKK" /\ ret # Pending /\ ret.ok
    /\ Len(call.r) >= 3
    /\ IsFinite(ret.val[1][1][2]) /\ ret.val[1][1][2] # Zero
    /\ IsFinite(ret.val[3][1][Len(call.r)])
    /\ ret.val[3][1][Len(call.r)] # Zero
    /\ IsFinite(call.dr[Len(call.r)]) /\ call.dr[Len(call.r)] # Zero
    /\ call.r[Len(call.r)] # 0

-----------------------------------------------------------------------------
(* Geometries, boundary conditions and overlapping areas *)

\* geometries.nvolume: the n-volume of the region of interest (n = 2)
nvolume(g, s) == IF g = "circle" THEN Fin(s * s, 1, 1) ELSE Int2Num(s * s)

\* geometries.mask for one position: strictly inside the region of interest
mask(g, s, p) ==
    IF g = "circle" THEN p[1] * p[1] + p[2] * p[2] < s * s
    ELSE p[1] < s /\ p[2] < s /\ p[1] > 0 /\ p[2] > 0

\* the entries x[i] of an array whose index i is in the set keep (x[mask])
RECURSIVE Masked(_, _, _)
Masked(x, keep, n) ==
    IF n = 0 THEN <<>>
    ELSE IF n \in keep THEN Append(Masked(x, keep, n - 1), x[n])
    ELSE Masked(x, keep, n - 1)

\* the image of a position p # (0, 0) for a circle of radius s: on the ray of
\* p, at the distance s^2/|p| of the origin (the positions of the model are
\* lattice points whose image is a lattice point)
Image(s, p) ==
    LET n2 == p[1] * p[1] + p[2] * p[2]
    IN  <<(s * s * p[1]) \div n2, (s * s * p[2]) \div n2>>

\* boundaries.IDBC: images of the positions other than the origin, and the
\* opposite of every sense
IDBC(s, p, b, t) ==
    IF t = "screw"
    THEN LET m == {i \in 1..Len(p) : p[i] # <<0, 0>>}
             v == Masked(p, m, Len(p))
         IN  Return([p |-> Tabulate([i \in 1..Len(v) |-> Image(s, v[i])], Len(v)),
                     b |-> Tabulate([i \in 1..Len(b) |-> -b[i]], Len(b))])
    ELSE Raise("ValueError")

\* a ring whose sides include both of their ends, each corner visited twice
RECURSIVE RingFrom_Closed(_, _)
RingFrom_Closed(i, j) ==
    IF j > 2 * i THEN <<>>
    ELSE << <<-i, i - j>>, <<i - j, i>>, <<i, j - i>>, <<j - i, -i>> >>
         \o RingFrom_Closed(i, j + 1)

\* the displacements appended by the loop of boundaries.PBCG for ring i, from
\* its step j on
RECURSIVE RingFrom(_, _)
RingFrom(i, j) ==
    IF j >= 2 * i THEN <<>>
    ELSE << <<-i, i - j>>, <<i - j, i>>, <<i, j - i>>, <<j - i, -i>> >>
         \o RingFrom(i, j + 1)

\* the list u of boundaries.PBCG for the rings i..r
RECURSIVE Displacements(_, _)
Displacements(i, r) ==
    IF i > r THEN <<>> ELSE RingFrom(i, 0) \o Displacements(i + 1, r)

\* p + s*d for an array of positions p
Translate(p, s, d) ==
    Tabulate([i \in 1..Len(p) |-> <<p[i][1] + s * d[1], p[i][2] + s * d[2]>>],
             Len(p))

\* np.concatenate([x(u[1]), ..., x(u[n])]) for arrays x[k] already computed
RECURSIVE Concatenate(_, _)
Concatenate(x, n) ==
    IF n = 0 THEN <<>> ELSE Concatenate(x, n - 1) \o x[n]

\* boundaries.PBCG: the positions translated by every displacement, and the
\* senses repeated as many times
PBCG(s, p, b, r) ==
    LET u == Displacements(1, r)
    IN  IF Len(u) = 0 THEN Raise("ValueError")
        ELSE Return([p |-> Concatenate([k \in 1..Len(u) |-> Translate(p, s, u[k])],
                                       Len(u)),
                     b |-> Concatenate([k \in 1..Len(u) |-> b], Len(u))])

\* an overlap that takes the disk A when B is inside A
circle_circle_DiskA(rA, rB, r2A, r2B, d2) ==
    LET m0 == rA + rB <= 0 \/ (rA + rB) * (rA + rB) <= d2
        mA == rB - rA >= 0 /\ d2 <= (rB - rA) * (rB - rA)
        mB == rA - rB >= 0 /\ d2 <= (rA - rB) * (rA - rB)
    IN  IF m0 THEN Zero
        ELSE IF mB THEN Fin(r2A, 1, 1)
        ELSE IF mA THEN Fin(r2A, 1, 1)
        ELSE Irr

\* overlap.circle_circle for the circle A of radius rA and the circle B of
\* radius rB whose centers are at the squared distance d2; the comparisons on
\* d = sqrt(d2) are made on squares; the area of a lens is not a rational
\* multiple of a power of pi
circle_circle(rA, rB, r2A, r2B, d2) ==
    LET m0 == rA + rB <= 0 \/ (rA + rB) * (rA + rB) <= d2
        mA == rB - rA >= 0 /\ d2 <= (rB - rA) * (rB - rA)
        mB == rA - rB >= 0 /\ d2 <= (rA - rB) * (rA - rB)
    IN  IF m0 THEN Zero
        ELSE IF mB THEN Fin(r2B, 1, 1)
        ELSE IF mA THEN Fin(r2A, 1, 1)
        ELSE Irr

\* the quadrants [d1, d2] of overlap.circle_square
Quadrants(x, y, s) ==
    << <<s - x, s - y>>, <<s - y, x>>, <<x, y>>, <<y, s - x>> >>

\* the area eq of the circle outside the square in one quadrant, as
\* [q |-> number of pi*r2/4, a |-> rational part, t |-> kind of value]
QuadrantArea(d, r, r2) ==
    LET mq == d[1] * d[1] + d[2] * d[2] > r2
        m1 == mq /\ d[1] < r
        m2 == mq /\ d[2] < r
        seg(x) == IF r2 < x * x \/ x < -r THEN "nan"
                  ELSE IF x = 0 THEN "quarter" ELSE "irr"
        ks == (IF m1 THEN {seg(d[1])} ELSE {}) \cup (IF m2 THEN {seg(d[2])} ELSE {})
    IN  IF ~mq THEN [q |-> 1, a |-> -(d[1] * d[2]), t |-> "fin"]
        ELSE IF "nan" \in ks THEN [q |-> 0, a |-> 0, t |-> "nan"]
        ELSE IF "irr" \in ks THEN [q |-> 0, a |-> 0, t |-> "irr"]
        ELSE [q |-> (IF m1 THEN 1 ELSE 0) + (IF m2 THEN 1 ELSE 0), a |-> 0,
              t |-> "fin"]

\* overlap.circle_square: pi*r2 - sum(e) for the circle of radius r centered
\* at (x, y) and the square of side s
circle_square(x, y, r, r2, s) ==
    LET e == [k \in 1..4 |-> QuadrantArea(Quadrants(x, y, s)[k], r, r2)]
        q == e[1].q + e[2].q + e[3].q + e[4].q
        a == e[1].a + e[2].a + e[3].a + e[4].a
    IN  IF \E k \in 1..4 : e[k].t = "nan" THEN NaN
        ELSE IF \E k \in 1..4 : e[k].t = "irr" THEN Irr
        ELSE IF a = 0 THEN Fin(r2 * (4 - q), 4, 1)
        ELSE IF q = 4 THEN Int2Num(-a)
        ELSE Irr

-----------------------------------------------------------------------------
(* sets.Distribution *)

\* a boundary conditions code: its first letters and the integer that follows
\* them (c[:4] and int(c[4:])); None has the code "None"
NoCode == [code |-> "None", rank |-> 0]

\* is k a perfect square
IsSquare(k) == \E x \in 0..k : x * x = k

\* the integer square root of a perfect square
ISqrt(k) == CHOOSE x \in 0..k : x * x = k

\* 1/np.sqrt(x) for a positive density x; a root that is not rational times a
\* power of pi is a float the number records cannot express
RInvSqrt(x) ==
    IF x.t = "fin" /\ x.n > 0 /\ x.e % 2 = 0 /\ IsSquare(x.n) /\ IsSquare(x.d)
    THEN Fin(ISqrt(x.d), ISqrt(x.n), -(x.e \div 2))
    ELSE IF x.t = "fin" /\ x.n > 0 THEN Irr
    ELSE IF x.t = "fin" /\ x.n = 0 THEN Inf(1)
    ELSE IF x.t = "inf" /\ x.n > 0 THEN Zero
    ELSE IF x.t = "irr" THEN Irr
    ELSE NaN

\* an exception raised by a constructor after m invocations of the model
RaiseAfter(e, m) == [ok |-> FALSE, err |-> e, m |-> m]

\* the geometries the constructor accepts (Distribution.geometries)
geometries == {"square", "circle"}

\* a constructor that applies the image dislocations whatever the geometry
Generate_ImagesAnywhere(a) ==
    IF "m" \in DOMAIN a THEN RaiseAfter("TypeError", 0)
    ELSE IF Len(a.mb) = 0 THEN RaiseAfter("ValueError", 1)
    ELSE LET own == [ok |-> TRUE, g |-> a.g, s |-> a.s, n |-> 2,
                     v |-> nvolume(a.g, a.s), t |-> a.t, p |-> a.mp,
                     b |-> a.mb, d |-> RDiv(Int2Num(Len(a.mb)), nvolume(a.g, a.s)),
                     i |-> RInvSqrt(RDiv(Int2Num(Len(a.mb)), nvolume(a.g, a.s))),
                     c |-> a.c, m |-> 1]
             cc == IF a.c = [code |-> "IDBC", rank |-> 0]
                   THEN IDBC(a.s, a.mp, a.mb, a.t)
                   ELSE IF a.g = "square" /\ a.c.code = "PBCG"
                   THEN PBCG(a.s, a.mp, a.mb, a.c.rank)
                   ELSE Raise("Exception")
         IN  IF a.c = NoCode \/ (a.c.code = "PBCR" /\ a.g = "square") THEN own
             ELSE IF ~cc.ok THEN RaiseAfter(cc.err, 1)
             ELSE [own EXCEPT !.p = a.mp \o cc.val.p, !.b = a.mb \o cc.val.b]

\* Distribution.__init__ from the invocation of the model on: self.m(g, s, v,
\* r) returns the positions a.mp and the senses a.mb, or raises TypeError
\* when the model is a.m, one of models.RDD, RRDD, RCDD, which take the five
\* arguments (g, s, a, r, G); len(self) is the length of the senses
Generate(a) ==
    IF "m" \in DOMAIN a THEN RaiseAfter("TypeError", 0)
    ELSE IF Len(a.mb) = 0 THEN RaiseAfter("ValueError", 1)
    ELSE LET own == [ok |-> TRUE, g |-> a.g, s |-> a.s, n |-> 2,
                     v |-> nvolume(a.g, a.s), t |-> a.t, p |-> a.mp,
                     b |-> a.mb, d |-> RDiv(Int2Num(Len(a.mb)), nvolume(a.g, a.s)),
                     i |-> RInvSqrt(RDiv(Int2Num(Len(a.mb)), nvolume(a.g, a.s))),
                     c |-> a.c, m |-> 1]
             cc == IF a.g = "circle" /\ a.c = [code |-> "IDBC", rank |-> 0]
                   THEN IDBC(a.s, a.mp, a.mb, a.t)
                   ELSE IF a.g = "square" /\ a.c.code = "PBCG"
                   THEN PBCG(a.s, a.mp, a.mb, a.c.rank)
                   ELSE Raise("Exception")
         IN  IF a.c = NoCode \/ (a.c.code = "PBCR" /\ a.g = "square") THEN own
             ELSE IF ~cc.ok THEN RaiseAfter(cc.err, 1)
             ELSE [own EXCEPT !.p = a.mp \o cc.val.p, !.b = a.mb \o cc.val.b]

\* a constructor that looks at the size and the geometry once the model has
\* been invoked
Distribution_ModelFirst(a) ==
    IF a.s <= 0 \/ a.g \notin geometries THEN RaiseAfter("ValueError", 1)
    ELSE Generate(a)

\* Distribution.__init__(g, s, m, r, t, c); the field m counts the invocations
\* of the model
Distribution(a) ==
    IF a.s <= 0 THEN RaiseAfter("ValueError", 0)
    ELSE IF a.g \notin geometries THEN RaiseAfter("ValueError", 0)
    ELSE Generate(a)

\* edge correction coefficients without the convention at radius 0
Distribution_w_Divided(d, a, r, r2) ==
    Tabulate([k \in 1..Len(r) |->
        LET vo == IF d.g = "circle"
                  THEN circle_circle(r[k], d.s, r2[k], d.s * d.s,
                                     a[1] * a[1] + a[2] * a[2])
                  ELSE circle_square(a[1], a[2], r[k], r2[k], d.s)
            vv == Fin(r2[k], 1, 1)
        IN  RDiv(One, RDiv(vo, vv))], Len(r))

\* Distribution.w(a, r, r2): the edge correction coefficients around a
Distribution_w(d, a, r, r2) ==
    Tabulate([k \in 1..Len(r) |->
        LET vo == IF d.g = "circle"
                  THEN circle_circle(r[k], d.s, r2[k], d.s * d.s,
                                     a[1] * a[1] + a[2] * a[2])
                  ELSE circle_square(a[1], a[2], r[k], r2[k], d.s)
            vv == Fin(r2[k], 1, 1)
        IN  RDiv(One, IF r2[k] > 0 THEN RDiv(vo, vv) ELSE One)], Len(r))

\* Distribution.conditions(kind + str(rank)): the outer dislocations of a
\* distribution without boundary conditions in a square; fresh[k] is what the
\* model of the distribution returns at its k-th new invocation
conditions(d, kind, rank, fresh) ==
    IF d.c # NoCode THEN Raise("Exception")
    ELSE IF d.g # "square" THEN Raise("Exception")
    ELSE IF kind = "PBC" THEN PBCG(d.s, d.p, d.b, rank)
    ELSE LET u == Displacements(1, rank)
         IN  IF Len(u) = 0 THEN Raise("ValueError")
             ELSE Return(
                 [p |-> Concatenate([k \in 1..Len(u) |->
                            Translate(fresh[1 + ((k - 1) % Len(fresh))].p, d.s, u[k])],
                            Len(u)),
                  b |-> Concatenate([k \in 1..Len(u) |->
                            fresh[1 + ((k - 1) % Len(fresh))].b], Len(u))])

-----------------------------------------------------------------------------
(* analyze.MMMM_cp_cm *)

\* np.max of a non-empty integer array
RECURSIVE MaxOf(_)
MaxOf(r) ==
    IF Len(r) = 1 THEN r[1] ELSE Max2(r[Len(r)], MaxOf(SubSeq(r, 1, Len(r) - 1)))

\* the replication rank taken from the largest radius instead of its ratio
\* to the size of the region
ReplicationRank_Floor(r, s) == MaxOf(r) \div s

\* int(np.ceil(np.max(r)/d.s))
ReplicationRank(r, s) == -((-MaxOf(r)) \div s)

\* the neighbourhood centers taken among all the stored positions of a sense
Centers1_NoMask(d, sgn) ==
    Masked(d.p, {i \in 1..Len(d.p) : d.b[i] * sgn > 0}, Len(d.p))

\* Pp1 (sgn = 1) and Pm1 (sgn = -1): the positions of a sense in the region of
\* interest
Centers1(d, sgn) ==
    Masked(d.p, {i \in 1..Len(d.p) : d.b[i] * sgn > 0 /\ mask(d.g, d.s, d.p[i])},
           Len(d.p))

\* P[B > 0] (sgn = 1) and P[B < 0] (sgn = -1)
OfSense(P, B, sgn) == Masked(P, {i \in 1..Len(P) : B[i] * sgn > 0}, Len(P))

\* the weighting function given to M, tabulated on the centers A
Weighting(d, A, r, r2, ec) ==
    [a \in Range(A) |->
        IF ec = "WOA" THEN Distribution_w(d, a, r, r2) ELSE Ones(Len(r))]

\* the observed positions Pp2 and Pm2 of each edge consideration, with the
\* calls of d.conditions made to get them; fresh is what the model of d
\* returns when d.conditions invokes it again
Observed(d, r, ec, fresh) ==
    IF ec = "NEC"
    THEN [ok |-> TRUE, cond |-> <<>>, P2 |-> d.p, B2 |-> d.b]
    ELSE IF ec = "WOA"
    THEN [ok |-> TRUE, cond |-> <<>>,
          P2 |-> Centers1(d, 1) \o Centers1(d, -1),
          B2 |-> [i \in 1..Len(Centers1(d, 1)) |-> 1]
                 \o [i \in 1..Len(Centers1(d, -1)) |-> -1]]
    ELSE IF ec = "PBC" \/ ec = "GBB"
    THEN IF Len(r) = 0 THEN [ok |-> FALSE, err |-> "ValueError", cond |-> <<>>]
         ELSE LET cond == <<[kind |-> ec, rank |-> ReplicationRank(r, d.s)]>>
                  cc == conditions(d, ec, cond[1].rank, fresh)
              IN  IF ~cc.ok THEN [ok |-> FALSE, err |-> cc.err, cond |-> cond]
                  ELSE [ok |-> TRUE, cond |-> cond,
                        P2 |-> d.p \o cc.val.p, B2 |-> d.b \o cc.val.b]
    ELSE [ok |-> FALSE, err |-> "ValueError", cond |-> <<>>]

\* the four calls of M, for the rows M++, M-+, M+-, M--, and the result of
\* MMMM_cp_cm; nM is the number of calls of M made
StackM(d, o, r, r2, ec) ==
    IF ~o.ok THEN [ok |-> FALSE, cond |-> o.cond, err |-> o.err, nM |-> 0]
    ELSE LET rows == Tabulate(
                 [row \in 1..4 |->
                     M(Centers1(d, IF row \in {1, 3} THEN 1 ELSE -1),
                       OfSense(o.P2, o.B2, IF row \in {1, 2} THEN 1 ELSE -1),
                       Weighting(d, Centers1(d, IF row \in {1, 3} THEN 1 ELSE -1),
                                 r, r2, ec),
                       r, r2)], 4)
             bad == {row \in 1..4 : ~rows[row].ok}
         IN  IF bad # {}
             THEN [ok |-> FALSE, cond |-> o.cond,
                   err |-> rows[CHOOSE x \in bad : \A y \in bad : x <= y].err,
                   nM |-> CHOOSE x \in bad : \A y \in bad : x <= y]
             ELSE [ok |-> TRUE, cond |-> o.cond, nM |-> 4,
                   val |-> <<Tabulate([row \in 1..4 |-> rows[row].val], 4),
                             Len(Centers1(d, 1)), Len(Centers1(d, -1))>>]

\* MMMM_cp_cm(d, r, r2, ec): <<MMMM, cp, cm>>, with the calls of d.conditions
\* it made; a distribution whose arrays p and b differ in length makes the
\* masks raise
MMMM_cp_cm(d, r, r2, ec, fresh) ==
    IF Len(d.p) # Len(d.b)
    THEN [ok |-> FALSE, cond |-> <<>>, nM |-> 0,
          err |-> IF Len(d.p) = 1 \/ Len(d.b) = 1 THEN "IndexError" ELSE "ValueError"]
    ELSE StackM(d, Observed(d, r, ec, fresh), r, r2, ec)

-----------------------------------------------------------------------------
(* Distributions and direct calls of MMMM_cp_cm *)

\* largest number of dislocations returned by a model
MaxPts == 3

\* the size of the region of interest of each geometry
RegionSize(g) == IF g = "circle" THEN 2 ELSE 3

\* the positions a model may return in each geometry, in the order it returns
\* them: all in [0, s[ x [0, s[ for a square of side s, all strictly inside
\* the circle of radius s
Roster(g) ==
    IF g = "circle" THEN << <<0, 0>>, <<1, 0>>, <<-1, 1>>, <<0, -1>>, <<1, 1>> >>
    ELSE << <<1, 1>>, <<0, 1>>, <<2, 2>>, <<1, 2>>, <<2, 1>> >>

\* what a model returns: some positions of the roster, each with a sense
ModelOutputs(g) ==
    LET n == IF MaxPts < Len(Roster(g)) THEN MaxPts ELSE Len(Roster(g))
    IN  { [p |-> Masked(Roster(g), {i \in 1..n : sel[i] # 0}, n),
           b |-> Masked(sel, {i \in 1..n : sel[i] # 0}, n)] :
          sel \in [1..n -> {-1, 0, 1}] }

\* boundary conditions codes given to the constructor: None, 'IDBC', 'PBCG1',
\* 'PBCR1'
CodesOfC ==
    {NoCode, [code |-> "IDBC", rank |-> 0], [code |-> "PBCG", rank |-> 1],
     [code |-> "PBCR", rank |-> 1]}

\* the arguments of the constructor of a distribution
ArgsOfDistribution ==
    \E g \in {"circle", "square"}, c \in CodesOfC :
        \E o \in ModelOutputs(g),
           t \in IF c.code = "IDBC" THEN {"screw", "edge"} ELSE {"screw"} :
            args = [g |-> g, s |-> RegionSize(g), mp |-> o.p, mb |-> o.b,
                    t |-> t, c |-> c]

\* radii of the neighborhoods
RadiusVals == {0, 1, 3, 4}

StrictlyAscending(s) == \A i \in 1..Len(s) - 1 : s[i] < s[i + 1]

\* np.square(r)
Square(r) == [k \in 1..Len(r) |-> r[k] * r[k]]

\* what the model returns at its new invocations
FreshOutputs ==
    LET P1 == [p |-> << <<1, 1>> >>, b |-> <<1>>]
        P2 == [p |-> << <<2, 1>>, <<1, 2>> >>, b |-> <<-1, 1>>]
    IN  {<<P1>>, <<P2>>, <<P1, P2>>}

\* the arguments of the direct calls of analyze.MMMM_cp_cm
ArgsOfMMMM ==
    \E r \in {x \in NonEmptySeqsUpTo(RadiusVals, MaxLen) : StrictlyAscending(x)},
       ec \in {"NEC", "WOA", "PBC", "GBB", "XYZ"}, shift \in {0, 1} :
        \E fresh \in IF ec = "GBB" THEN FreshOutputs ELSE {<<>>} :
            call = [f |-> "MMMM_cp_cm", r |-> r,
                    r2 |-> [k \in 1..Len(r) |-> r[k] * r[k] + shift],
                    ec |-> ec, fresh |-> fresh]

\* the constructor of a distribution
Construct ==
    /\ args # NoArgs /\ dist = NoDist
    /\ dist' = Distribution(args)
    /\ UNCHANGED <<args, call, ret>>

\* a direct call of analyze.MMMM_cp_cm on the distribution
CallMMMM ==
    /\ dist # NoDist /\ dist.ok
    /\ call.f = "MMMM_cp_cm" /\ ret = Pending
    /\ ret' = MMMM_cp_cm(dist, call.r, call.r2, call.ec, call.fresh)
    /\ UNCHANGED <<args, dist, call>>

InitMMMM ==
    /\ ArgsOfDistribution
    /\ dist = NoDist
    /\ ArgsOfMMMM
    /\ ret = Pending

NextMMMM == Construct \/ CallMMMM

\* a distribution is built, then analyze.MMMM_cp_cm is called on it
SpecMMMM == InitMMMM /\ [][NextMMMM]_vars

-----------------------------------------------------------------------------
(* Claims on MMMM_cp_cm, checked under SpecMMMM *)

\* the stored positions of a sense, all of them or only those strictly inside
\* the region of interest
StoredOfSense(d, sgn) ==
    Masked(d.p, {i \in 1..Len(d.p) : d.b[i] = sgn}, Len(d.p))

InteriorOfSense(d, sgn) ==
    Masked(d.p, {i \in 1..Len(d.p) : d.b[i] = sgn /\ mask(d.g, d.s, d.p[i])},
           Len(d.p))

\* the sense of the centers and of the observed points of each row of MMMM:
\* M++, M-+, M+-, M--
CenterSense(row) == IF row \in {1, 3} THEN 1 ELSE -1

ObservedSense(row) == IF row \in {1, 2} THEN 1 ELSE -1

\* the value M gives at radius k for the centers A observing the points B:
\* the sum over the centers of the number of observed points at a squared
\* distance in ]0, r2[k]], over the sum of the weights of the centers
ValueOfM(A, B, wts, r2, k) ==
    RDiv(SumNum(CountAt(A, B, r2, k), Len(A)),
         SumNum([i \in 1..Len(A) |-> wts[i][k]], Len(A)))

UnitWeights(A, r) == [i \in 1..Len(A) |-> [k \in 1..Len(r) |-> One]]

OverlapWeights(d, A, r, r2) ==
    [i \in 1..Len(A) |-> Distribution_w(d, A[i], r, r2)]

\* C3: whenever MMMM_cp_cm returns, cp and cm are the numbers of stored points
\* of sense + and - strictly inside the region of interest; with ec = 'NEC'
\* each row is the value of M for the interior points of its center sense
\* observing all the stored points of its observed sense, with ec = 'WOA' for
\* the interior points of its center sense observing the interior points of
\* its observed sense; the rows are M++, M-+, M+-, M--.
C3_CentersAndObserved ==
    (call.f = "MMMM_cp_cm" /\ ret # Pending /\ ret.ok) =>
        /\ ret.val[2] = Len(InteriorOfSense(dist, 1))
        /\ ret.val[3] = Len(InteriorOfSense(dist, -1))
        /\ Len(ret.val[1]) = 4
        /\ \A row \in 1..4 : Len(ret.val[1][row]) = Len(call.r)
        /\ call.ec = "NEC" =>
            \A row \in 1..4, k \in 1..Len(call.r) :
                ret.val[1][row][k] =
                    ValueOfM(InteriorOfSense(dist, CenterSense(row)),
                             StoredOfSense(dist, ObservedSense(row)),
                             UnitWeights(InteriorOfSense(dist, CenterSense(row)),
                                         call.r),
                             call.r2, k)
        /\ call.ec = "WOA" =>
            \A row \in 1..4, k \in 1..Len(call.r) :
                ret.val[1][row][k] =
                    ValueOfM(InteriorOfSense(dist, CenterSense(row)),
                             InteriorOfSense(dist, ObservedSense(row)),
                             OverlapWeights(dist,
                                 InteriorOfSense(dist, CenterSense(row)),
                                 call.r, call.r2),
                             call.r2, k)

\* MMMM_cp_cm has returned with ec = 'NEC' for a distribution that stores
\* appended boundary points: a negative center counts a positive point stored
\* outside the region, and the rows M-+ and M+- differ
C3_Witness ==
    /\ call.f = "MMMM_cp_cm" /\ ret # Pending /\ ret.ok
    /\ call.ec = "NEC"
    /\ dist.c # NoCode
    /\ ret.val[2] > 0 /\ ret.val[3] > 0
    /\ \E i, j \in 1..Len(dist.p), k \in 1..Len(call.r) :
          /\ dist.b[i] = -1 /\ mask(dist.g, dist.s, dist.p[i])
          /\ dist.b[j] = 1 /\ ~mask(dist.g, dist.s, dist.p[j])
          /\ SqDist(dist.p[i], dist.p[j]) > 0
          /\ SqDist(dist.p[i], dist.p[j]) <= call.r2[k]
          /\ IsFinite(ret.val[1][2][k]) /\ ret.val[1][2][k] # Zero
          /\ ret.val[1][2][k] # ret.val[1][3][k]

\* the cells of the plane, of the side of the region, that hold the observed
\* points when the boundary strategy is replayed at a rank: the cell of the
\* region and the cell of every displacement
ObservedCells(rank) == {<<0, 0>>} \cup Range(Displacements(1, rank))

\* the cells that meet the square circumscribed to the neighborhood of radius
\* x around the position a
CellsAround(a, x, s) ==
    { <<qx \div s, qy \div s>> : qx \in (a[1] - x)..(a[1] + x),
                                 qy \in (a[2] - x)..(a[2] + x) }

\* the rows of MMMM for the interior centers observing the points own of the
\* distribution (positions own.p, senses own.b) and the outer points
RowsObserving(own, outer) ==
    [row \in 1..4 |-> [k \in 1..Len(call.r) |->
        ValueOfM(InteriorOfSense(dist, CenterSense(row)),
                 OfSense(own.p \o outer.p, own.b \o outer.b, ObservedSense(row)),
                 UnitWeights(InteriorOfSense(dist, CenterSense(row)), call.r),
                 call.r2, k)]]

\* for a distribution with as many senses as positions, the call of
\* d.conditions is made once, at the rank ceil(max(r)/d.s); the rows returned
\* are those of the interior centers observing own and the outer points of
\* that rank; the cells observed cover the neighborhoods
ReplayedAtCoveringRank(own) ==
    (/\ call.f = "MMMM_cp_cm" /\ ret # Pending /\ call.ec \in {"PBC", "GBB"}
     /\ Len(dist.p) = Len(dist.b)) =>
        /\ Len(ret.cond) = 1
        /\ ret.cond[1].kind = call.ec
        /\ ret.cond[1].rank * dist.s >= MaxOf(call.r)
        /\ (ret.cond[1].rank - 1) * dist.s < MaxOf(call.r)
        /\ ret.ok =>
            /\ \A row \in 1..4, k \in 1..Len(call.r) :
                ret.val[1][row][k] =
                    RowsObserving(own,
                        conditions(dist, call.ec, ret.cond[1].rank,
                                   call.fresh).val)[row][k]
            /\ \A i \in 1..Len(dist.p), k \in 1..Len(call.r) :
                mask(dist.g, dist.s, dist.p[i]) =>
                    CellsAround(dist.p[i], call.r[k], dist.s)
                        \subseteq ObservedCells(ret.cond[1].rank)

\* the points of the distribution strictly inside the region of interest
InteriorPoints(d) ==
    [p |-> Masked(d.p, {i \in 1..Len(d.p) : mask(d.g, d.s, d.p[i])}, Len(d.p)),
     b |-> Masked(d.b, {i \in 1..Len(d.p) : mask(d.g, d.s, d.p[i])}, Len(d.p))]

-----------------------------------------------------------------------------
(* analyze.calculate *)

\* an optional keyword argument: absent, or given with a value
Absent == [given |-> FALSE]

Given(v) == [given |-> TRUE, val |-> v]

\* getkwa(key, kwargs, typ, dft)
getkwa(kwa, dft) == IF kwa.given THEN kwa.val ELSE dft

\* an integer array as an array of numbers
Nums(r) == Tabulate([k \in 1..Len(r) |-> Int2Num(r[k])], Len(r))

\* the flags of calculate_on_distribution
clcgggg(q) == {"gggg", "dp", "dm", "dKKKK"} \cap Range(q) # {}

clcKKKK(q) == clcgggg(q) \/ {"KKKK", "cp", "cm"} \cap Range(q) # {}

clcGaGs(q) == {"GaGs", "dMMMM"} \cap Range(q) # {}

\* the storage s after MMMM_cp_cm returned m; ran lists the stages executed
\* and cond the calls of d.conditions
StoreMMMM(m) ==
    IF ~m.ok
    THEN [ok |-> FALSE, err |-> m.err, ran |-> <<"MMMM_cp_cm">>, cond |-> m.cond]
    ELSE [ok |-> TRUE, ran |-> <<"MMMM_cp_cm">>, cond |-> m.cond,
          s |-> ("MMMM" :> m.val[1]) @@ ("cp" :> m.val[2]) @@ ("cm" :> m.val[3])]

\* the storage after KKKK_dp_dm returned k
StoreKKKK(st, k) ==
    [st EXCEPT !.ran = Append(@, "KKKK_dp_dm"),
               !.s = ("KKKK" :> k.val[1]) @@ ("dp" :> k.val[2])
                     @@ ("dm" :> k.val[3]) @@ @]

\* if clcKKKK: s['KKKK'], s['dp'], s['dm'] = KKKK_dp_dm(...)
StageKKKK(st, d, q) ==
    IF ~st.ok \/ ~clcKKKK(q) THEN st
    ELSE StoreKKKK(st, KKKK_dp_dm(st.s["MMMM"], st.s["cp"], st.s["cm"], d.v))

\* if clcgggg or clcGaGs: s['dr'] = np.gradient(r)
Stagedr(st, r, q) ==
    IF ~st.ok \/ ~(clcgggg(q) \/ clcGaGs(q)) THEN st
    ELSE [st EXCEPT !.s = ("dr" :> Gradient(Nums(r)).val) @@ @]

\* the storage after gggg_dV_dKKKK returned or raised g
Storegggg(st, g) ==
    IF ~g.ok
    THEN [ok |-> FALSE, err |-> g.err, ran |-> Append(st.ran, "gggg_dV_dKKKK"),
          cond |-> st.cond]
    ELSE [st EXCEPT !.ran = Append(@, "gggg_dV_dKKKK"),
                    !.s = ("gggg" :> g.val[1]) @@ ("dV" :> g.val[2])
                          @@ ("dKKKK" :> g.val[3]) @@ @]

\* if clcgggg: s['gggg'], s['dV'], s['dKKKK'] = gggg_dV_dKKKK(...)
Stagegggg(st, d, r, q) ==
    IF ~st.ok \/ ~clcgggg(q) THEN st
    ELSE Storegggg(st, gggg_dV_dKKKK(st.s["KKKK"], st.s["dr"], r, d.n))

\* the storage after GaGs_dMMMM returned or raised G: the array s['dr'] is the
\* one the stage wrote into
StoreGaGs(st, G) ==
    IF ~G.ok
    THEN [ok |-> FALSE, err |-> G.err, ran |-> Append(st.ran, "GaGs_dMMMM"),
          cond |-> st.cond]
    ELSE [st EXCEPT !.ran = Append(@, "GaGs_dMMMM"),
                    !.s = ("GaGs" :> G.val[1]) @@ ("dMMMM" :> G.val[2])
                          @@ ("dr" :> G.dr) @@ @]

\* if clcGaGs: s['GaGs'], s['dMMMM'] = GaGs_dMMMM(...)
StageGaGs(st, q) ==
    IF ~st.ok \/ ~clcGaGs(q) THEN st
    ELSE StoreGaGs(st, GaGs_dMMMM(st.s["MMMM"], st.s["dr"], st.s["cp"],
                                  st.s["cm"]))

\* return tuple([s[k] for k in q])
Results(q, st) ==
    IF ~st.ok THEN st
    ELSE IF \E k \in 1..Len(q) : q[k] \notin DOMAIN st.s
    THEN [ok |-> FALSE, err |-> "KeyError", ran |-> st.ran, cond |-> st.cond]
    ELSE [ok |-> TRUE, val |-> Tabulate([k \in 1..Len(q) |-> st.s[q[k]]], Len(q)),
          ran |-> st.ran, cond |-> st.cond]

\* calculate_on_distribution(d) for the request q, the radii r, the squared
\* radii r2 and the edge consideration ec
calculate_on_distribution(q, d, r, r2, ec, fresh) ==
    Results(q,
        StageGaGs(
            Stagegggg(
                Stagedr(
                    StageKKKK(StoreMMMM(MMMM_cp_cm(d, r, r2, ec, fresh)), d, q),
                    r, q),
                d, r, q),
            q))

\* calculate(q, o, r, **kwargs) for a distribution o = d and the keyword
\* arguments kw.r2, kw.dr and kw.ec; the default value of dr is computed
\* before the keyword argument is read
calculate(q, d, r, kw, fresh) ==
    IF ~Gradient(Nums(r)).ok
    THEN [ok |-> FALSE, err |-> "ValueError", ran |-> <<>>, cond |-> <<>>]
    ELSE LET r2 == getkwa(kw.r2, Square(r))
             dr == getkwa(kw.dr, Gradient(Nums(r)).val)
             ec == getkwa(kw.ec, "NEC")
         IN  calculate_on_distribution(q, d, r, r2, ec, fresh)

-----------------------------------------------------------------------------
(* Distributions and calls of analyze.calculate *)

\* the quantity names documented for calculate
QuantityNames ==
    {"MMMM", "KKKK", "gggg", "GaGs", "cp", "cm", "dp", "dm", "dV", "dKKKK",
     "dMMMM"}

\* the requests: one name, or two different names in either order
Requests ==
    {<<x>> : x \in QuantityNames}
    \cup {x \in QuantityNames \X QuantityNames : x[1] # x[2]}

\* the distributions analyzed: without boundary conditions, or built with
\* the code 'PBCG1'
ArgsOfAnalyzedDistribution ==
    \E g \in {"circle", "square"}, c \in {NoCode, [code |-> "PBCG", rank |-> 1]} :
        \E o \in ModelOutputs(g) :
            args = [g |-> g, s |-> RegionSize(g), mp |-> o.p, mb |-> o.b,
                    t |-> "screw", c |-> c]

\* the arguments of the calls of analyze.calculate: a request, radii, and
\* possibly one of the keyword arguments r2 and dr, and ec
ArgsOfCalculate ==
    \E q \in Requests, r \in {<<0, 1, 3>>, <<1, 3, 4>>},
       ec \in {Absent, Given("WOA"), Given("PBC"), Given("XYZ")},
       opt \in {"none", "r2", "dr"} :
        call = [f |-> "calculate", q |-> q, r |-> r,
                kw |-> [r2 |-> IF opt = "r2"
                               THEN Given([k \in 1..Len(r) |-> r[k] * r[k] + 1])
                               ELSE Absent,
                        dr |-> IF opt = "dr"
                               THEN Given([k \in 1..Len(r) |-> Fin(1, 2, 0)])
                               ELSE Absent,
                        ec |-> ec],
                fresh |-> <<>>]

\* a call of analyze.calculate on the distribution
Calculate ==
    /\ dist # NoDist /\ dist.ok
    /\ call.f = "calculate" /\ ret = Pending
    /\ ret' = calculate(call.q, dist, call.r, call.kw, call.fresh)
    /\ UNCHANGED <<args, dist, call>>

InitCalc ==
    /\ ArgsOfAnalyzedDistribution
    /\ dist = NoDist
    /\ ArgsOfCalculate
    /\ ret = Pending

NextCalc == Construct \/ Calculate

\* a distribution is built, then analyze.calculate is called on it
SpecCalc == InitCalc /\ [][NextCalc]_vars

-----------------------------------------------------------------------------
(* Claims on calculate, checked under SpecCalc *)

\* the result of calculate for the request q, everything else as in the call
CalculateFor(q) == calculate(q, dist, call.r, call.kw, call.fresh)

\* C7: when calculate returns, it returns one value per requested name, and
\* the value of each requested name X is the value calculate returns when X
\* is requested alone, for the same distribution, radii and keyword arguments.
C7_ValueIndependentOfRequest ==
    (call.f = "calculate" /\ ret # Pending /\ ret.ok) =>
        /\ Len(ret.val) = Len(call.q)
        /\ \A i \in 1..Len(call.q) :
            /\ CalculateFor(<<call.q[i]>>).ok
            /\ CalculateFor(<<call.q[i]>>).val[1] = ret.val[i]

\* the arrays r2 and ec that calculate has to use
UsedR2 == getkwa(call.kw.r2, Square(call.r))

UsedEc == getkwa(call.kw.ec, "NEC")

\* C8: for every non-empty request made of documented names, on a
\* distribution and with arguments for which MMMM_cp_cm returns, calculate
\* returns len(q) values.
C8_EveryNameRequestable ==
    (/\ call.f = "calculate" /\ ret # Pending
     /\ Range(call.q) \subseteq QuantityNames
     /\ MMMM_cp_cm(dist, call.r, UsedR2, UsedEc, call.fresh).ok) =>
        ret.ok /\ Len(ret.val) = Len(call.q)

\* the quantities that are outputs of a stage or of a stage that depends on it
NeededFor(stage) ==
    CASE stage = "MMMM_cp_cm" -> QuantityNames
      [] stage = "KKKK_dp_dm" -> {"KKKK", "dp", "dm", "gggg", "dV", "dKKKK"}
      [] stage = "gggg_dV_dKKKK" -> {"gggg", "dV", "dKKKK"}
      [] stage = "GaGs_dMMMM" -> {"GaGs", "dMMMM"}

\* C9: calculate executes a stage only if a requested quantity is an output
\* of the stage or of a stage that depends on it.
C9_MinimalDependencyChain ==
    (call.f = "calculate" /\ ret # Pending) =>
        \A i \in 1..Len(ret.ran) : NeededFor(ret.ran[i]) \cap Range(call.q) # {}

\* the quantities computed as documented from the keyword arguments: the
\* counts from r2, the differentials from dr
UsedDr == getkwa(call.kw.dr, Gradient(Nums(call.r)).val)

DocMMMM == MMMM_cp_cm(dist, call.r, UsedR2, UsedEc, call.fresh).val

DocKKKK == KKKK_dp_dm(DocMMMM[1], DocMMMM[2], DocMMMM[3], dist.v).val

Docgggg == gggg_dV_dKKKK(DocKKKK[1], UsedDr, call.r, dist.n).val

DocGaGs == GaGs_dMMMM(DocMMMM[1], UsedDr, DocMMMM[2], DocMMMM[3]).val

\* C10: the values calculate returns for MMMM, gggg, dV and GaGs are those
\* computed from the r2 and dr given as keyword arguments, and from square(r)
\* and gradient(r) when they are omitted.
C10_KeywordArraysUsed ==
    (call.f = "calculate" /\ ret # Pending /\ ret.ok) =>
        \A i \in 1..Len(call.q) :
            /\ call.q[i] = "MMMM" => ret.val[i] = DocMMMM[1]
            /\ call.q[i] = "gggg" => ret.val[i] = Docgggg[1]
            /\ call.q[i] = "dV" => ret.val[i] = Docgggg[2]
            /\ call.q[i] = "GaGs" => ret.val[i] = DocGaGs[1]

-----------------------------------------------------------------------------
(* sets.Sample *)

\* What a function f given to Sample.average returns is a tuple of items or
\* one item, and an item is [kind, obj, val]: a Python or numpy scalar
\* (kind "scalar", immutable), an array of numbers (kind "array") or an array
\* of rows of numbers (kind "rows"); obj identifies the object, so that two
\* items with the same obj are one numpy array.
Item(kind, obj, val) == [kind |-> kind, obj |-> obj, val |-> val]

\* x + y and x / n for the values of a kind
VAdd(kind, x, y) ==
    IF kind = "scalar" THEN RAdd(x, y)
    ELSE IF kind = "array"
    THEN Tabulate([k \in 1..Len(x) |-> RAdd(x[k], y[k])], Len(x))
    ELSE Tabulate([k \in 1..Len(x) |->
             Tabulate([c \in 1..Len(x[k]) |-> RAdd(x[k][c], y[k][c])], Len(x[k]))],
             Len(x))

VDiv(kind, x, n) ==
    IF kind = "scalar" THEN RDiv(x, Int2Num(n))
    ELSE IF kind = "array"
    THEN Tabulate([k \in 1..Len(x) |-> RDiv(x[k], Int2Num(n))], Len(x))
    ELSE Tabulate([k \in 1..Len(x) |->
             Tabulate([c \in 1..Len(x[k]) |-> RDiv(x[k][c], Int2Num(n))], Len(x[k]))],
             Len(x))

\* the accumulators of Sample.average after r = f(self[0]): the arrays of r,
\* by object (H), and the current value of every position of r (S, which is
\* what a scalar position is bound to)
Accumulators(r) ==
    [ok |-> TRUE,
     H |-> [o \in {r[j].obj : j \in {k \in 1..Len(r) : r[k].kind # "scalar"}} |->
               r[CHOOSE j \in 1..Len(r) : r[j].obj = o /\ r[j].kind # "scalar"].val],
     S |-> Tabulate([j \in 1..Len(r) |-> r[j].val], Len(r))]

\* the value an item has when it is read: an array that is one of the
\* accumulators has the value accumulated in it so far
Read(st, x) ==
    IF x.kind # "scalar" /\ x.obj \in DOMAIN st.H THEN st.H[x.obj] ELSE x.val

\* r[j] += x: in place for an array (every reference to the object sees the
\* sum), a new binding of position j for a scalar; arrays of different
\* lengths cannot be added in place, unless x has one element
AddInPlace(st, r, j, x) ==
    IF r[j].kind = "scalar"
    THEN [ok |-> TRUE, H |-> st.H,
          S |-> Tabulate([k \in 1..Len(r) |->
                    IF k = j THEN RAdd(st.S[j], Read(st, x)) ELSE st.S[k]], Len(r))]
    ELSE IF r[j].kind = "array" /\ Len(Read(st, x)) # Len(st.H[r[j].obj])
    THEN IF Len(Read(st, x)) # 1
         THEN [ok |-> FALSE, err |-> "ValueError", H |-> st.H]
         ELSE [ok |-> TRUE,
               H |-> [o \in DOMAIN st.H |->
                         IF o = r[j].obj
                         THEN Tabulate([k \in 1..Len(st.H[o]) |->
                                  RAdd(st.H[o][k], Read(st, x)[1])], Len(st.H[o]))
                         ELSE st.H[o]],
               S |-> st.S]
    ELSE [ok |-> TRUE,
          H |-> [o \in DOMAIN st.H |->
                    IF o = r[j].obj
                    THEN VAdd(r[j].kind, st.H[o], Read(st, x))
                    ELSE st.H[o]],
          S |-> st.S]

\* for j in range(n): r[j] += ri[j], from position j on
RECURSIVE AddResult(_, _, _, _)
AddResult(st, r, ri, j) ==
    IF ~st.ok \/ j > Len(r) THEN st
    ELSE IF j > Len(ri) THEN [ok |-> FALSE, err |-> "IndexError", H |-> st.H]
    ELSE AddResult(AddInPlace(st, r, j, ri[j]), r, ri, j + 1)

\* for i in range(1, len(self)): the results F[i] of f on the members from
\* the i-th on are added to r = F[1]
RECURSIVE AddMembers(_, _, _)
AddMembers(st, F, i) ==
    IF ~st.ok \/ i > Len(F) THEN st
    ELSE AddMembers(AddResult(st, F[1].items, F[i].items, 1), F, i + 1)

\* Sample.average(f) for a sample of Len(F) members, F[i] being what f
\* returns for the i-th member: [tuple, items], a tuple of items or the one
\* item of items
average(F) ==
    LET r == F[1].items
        st == AddMembers(Accumulators(r), F, 2)
        out == Tabulate([j \in 1..Len(r) |->
                   VDiv(r[j].kind,
                        IF r[j].kind = "scalar" THEN st.S[j] ELSE st.H[r[j].obj],
                        Len(F))], Len(r))
    IN  IF ~st.ok THEN Raise(st.err)
        ELSE Return(IF F[1].tuple THEN out ELSE out[1])

\* f = lambda d : d.d and f = lambda d : d.i on the members l
DensityOf(l) ==
    Tabulate([k \in 1..Len(l) |->
        [tuple |-> FALSE, items |-> <<Item("scalar", k, l[k].d)>>]], Len(l))

DistanceOf(l) ==
    Tabulate([k \in 1..Len(l) |->
        [tuple |-> FALSE, items |-> <<Item("scalar", k, l[k].i)>>]], Len(l))

\* the arguments of the k-th Distribution a Sample constructs: the model
\* returns a.outs[k] at its k-th invocation
MemberArgs(a, k) ==
    IF "m" \in DOMAIN a
    THEN [g |-> a.g, s |-> a.s, m |-> a.m, r |-> a.r, t |-> a.t, c |-> a.c]
    ELSE [g |-> a.g, s |-> a.s, mp |-> a.outs[k].p, mb |-> a.outs[k].b,
          t |-> a.t, c |-> a.c]

\* the number of invocations of the model made by the first k constructions
RECURSIVE Invocations(_, _)
Invocations(a, k) ==
    IF k = 0 THEN 0 ELSE Invocations(a, k - 1) + Distribution(MemberArgs(a, k)).m

\* Sample.__init__(n, g, s, m, r, t, c): the members are constructed in
\* order, and the first that raises ends the construction
Sample(a) ==
    IF a.n <= 0 THEN RaiseAfter("ValueError", 0)
    ELSE LET l == Tabulate([k \in 1..a.n |-> Distribution(MemberArgs(a, k))], a.n)
             bad == {k \in 1..a.n : ~l[k].ok}
             first == CHOOSE k \in bad : \A x \in bad : k <= x
         IN  IF bad # {} THEN RaiseAfter(l[first].err, Invocations(a, first))
             ELSE [ok |-> TRUE, l |-> l, g |-> a.g, s |-> a.s, n |-> l[1].n,
                   v |-> l[1].v, t |-> a.t, d |-> average(DensityOf(l)).val,
                   i |-> average(DistanceOf(l)).val, c |-> a.c, m |-> a.n]

\* the kind of the value of each quantity of calculate
KindOf(name) ==
    IF name \in {"cp", "cm", "dp", "dm"} THEN "scalar"
    ELSE IF name = "dV" THEN "array"
    ELSE "rows"

\* what calculate_on_distribution returned for the k-th member as the items
\* Sample.average adds: s[name] is one object, whatever the number of times
\* name is requested, and cp, cm are integers
ItemsOf(q, k, res) ==
    [tuple |-> TRUE,
     items |-> Tabulate([j \in 1..Len(q) |->
                  Item(KindOf(q[j]), <<k, q[j]>>,
                       IF q[j] \in {"cp", "cm"} THEN Int2Num(res.val[j])
                       ELSE res.val[j])], Len(q))]

\* calculate(q, o, r, **kwargs) for a sample o = S: o.average of
\* calculate_on_distribution; the first member that raises ends the call
calculate_on_sample(q, S, r, kw, fresh) ==
    LET res == Tabulate([k \in 1..Len(S.l) |->
                   calculate(q, S.l[k], r, kw, fresh)], Len(S.l))
        bad == {k \in 1..Len(S.l) : ~res[k].ok}
        first == CHOOSE k \in bad : \A x \in bad : k <= x
    IN  IF bad # {} THEN Raise(res[first].err)
        ELSE average(Tabulate([k \in 1..Len(S.l) |-> ItemsOf(q, k, res[k])],
                              Len(S.l)))

-----------------------------------------------------------------------------
(* Constructions of distributions and samples, and calls on a sample *)

\* largest number of distributions of a sample
MaxMembers == 3

\* no call is made on the object constructed
NoCall == [f |-> "none"]

\* boundary conditions codes given to a constructor: those of CodesOfC,
\* 'PBCG0' and a string that is no code
AnyCodes ==
    CodesOfC \cup {[code |-> "PBCG", rank |-> 0], [code |-> "XYZ", rank |-> 0]}

\* the arguments of the constructor of a distribution, valid or not
ArgsOfAnyDistribution ==
    \E g \in {"circle", "square", "cube"}, c \in AnyCodes, t \in {"screw", "edge"},
       valid \in BOOLEAN :
        \E o \in ModelOutputs(g), s \in IF valid THEN {RegionSize(g)} ELSE {-1, 0} :
            args = [g |-> g, s |-> s, mp |-> o.p, mb |-> o.b, t |-> t, c |-> c]

\* what the model returns at its successive invocations for a sample
OutputsOfModel(g) ==
    IF g = "circle"
    THEN << [p |-> << <<1, 0>> >>, b |-> <<1>>],
            [p |-> << <<0, 0>>, <<-1, 1>> >>, b |-> <<-1, 1>>],
            [p |-> << <<1, 0>>, <<0, -1>>, <<1, 1>> >>, b |-> <<1, 1, -1>>],
            [p |-> <<>>, b |-> <<>>] >>
    ELSE << [p |-> << <<1, 1>> >>, b |-> <<1>>],
            [p |-> << <<0, 1>>, <<2, 2>> >>, b |-> <<-1, -1>>],
            [p |-> << <<1, 1>>, <<2, 2>>, <<1, 2>>, <<2, 1>> >>, b |-> <<1, -1, 1, -1>>],
            [p |-> <<>>, b |-> <<>>] >>

\* the arguments of the constructor of a sample
ArgsOfSample ==
    \E n \in -1..MaxMembers, g \in {"circle", "square"},
       c \in {NoCode, [code |-> "IDBC", rank |-> 0], [code |-> "PBCG", rank |-> 1]},
       pick \in [1..MaxMembers -> 1..4] :
        args = [n |-> n, g |-> g, s |-> RegionSize(g),
                outs |-> Tabulate([k \in 1..MaxMembers |-> OutputsOfModel(g)[pick[k]]],
                                  MaxMembers),
                t |-> "screw", c |-> c]

\* the functions given to Sample.average
Functions == {"density", "length", "senses", "shared", "pair", "twice", "b"}

\* what the function fn returns for each member of l: the density, the
\* length, a new array of the two numbers of points of each sense, one array
\* that is the same object at every call, the tuple of the density and of a
\* new array, the tuple made of one new array twice, the array of the senses
\* that the member holds (lambda d: d.b)
Apply(fn, l) ==
    LET count(k, sgn) == Int2Num(Cardinality({x \in 1..Len(l[k].b) : l[k].b[x] = sgn}))
        senses(k) == <<count(k, 1), count(k, -1)>>
    IN  Tabulate([k \in 1..Len(l) |->
            IF fn = "density"
            THEN [tuple |-> FALSE, items |-> <<Item("scalar", k, l[k].d)>>]
            ELSE IF fn = "length"
            THEN [tuple |-> FALSE,
                  items |-> <<Item("scalar", k, Int2Num(Len(l[k].b)))>>]
            ELSE IF fn = "senses"
            THEN [tuple |-> FALSE, items |-> <<Item("array", k, senses(k))>>]
            ELSE IF fn = "shared"
            THEN [tuple |-> FALSE, items |-> <<Item("array", 0, <<One, Zero>>)>>]
            ELSE IF fn = "b"
            THEN [tuple |-> FALSE,
                  items |-> <<Item("array", -k,
                                   Tabulate([x \in 1..Len(l[k].b) |->
                                                Int2Num(l[k].b[x])],
                                            Len(l[k].b)))>>]
            ELSE IF fn = "pair"
            THEN [tuple |-> TRUE,
                  items |-> <<Item("scalar", <<k, 1>>, l[k].d),
                              Item("array", <<k, 2>>, senses(k))>>]
            ELSE [tuple |-> TRUE,
                  items |-> <<Item("array", k, senses(k)),
                              Item("array", k, senses(k))>>]], Len(l))

\* the calls made on a sample: Sample.average(f), or analyze.calculate
ArgsOfCallOnSample ==
    \/ \E fn \in Functions : call = [f |-> "average", fn |-> fn]
    \/ \E q \in {<<x>> : x \in QuantityNames}
               \cup {<<"MMMM", "cp">>, <<"KKKK", "KKKK">>, <<"dp", "gggg">>,
                     <<"cm", "cm">>, <<"GaGs", "dMMMM">>} :
        call = [f |-> "calculate", q |-> q, r |-> <<0, 1, 3>>,
                kw |-> [r2 |-> Absent, dr |-> Absent, ec |-> Absent],
                fresh |-> <<>>]

\* the constructor of a sample
ConstructSample ==
    /\ "outs" \in DOMAIN args /\ dist = NoDist
    /\ dist' = Sample(args)
    /\ UNCHANGED <<args, call, ret>>

\* the constructor of a distribution on which no call is made
ConstructDistribution ==
    /\ "mp" \in DOMAIN args
    /\ Construct

\* the arguments of the constructors given a model of the module models
ArgsOfModelled ==
    \E g \in {"square", "disk"}, s \in {0, 4}, m \in {"RDD", "RRDD", "RCDD"},
       k \in 1..2, n \in 0..MaxMembers :
        LET r == IF m = "RDD" THEN [d |-> <<4 * k, 4>>]
                 ELSE [v |-> "E", s |-> 4, t |-> 1, f |-> 2 * k]
        IN  args = IF n = 0
                   THEN [g |-> g, s |-> s, m |-> m, r |-> r, t |-> "screw",
                         c |-> NoCode]
                   ELSE [n |-> n, g |-> g, s |-> s, m |-> m, r |-> r,
                         t |-> "screw", c |-> NoCode]

\* the constructor of a distribution or of a sample given a model of the
\* module models
ConstructFromModel ==
    /\ "m" \in DOMAIN args /\ dist = NoDist
    /\ dist' = IF "n" \in DOMAIN args THEN Sample(args) ELSE Distribution(args)
    /\ UNCHANGED <<args, call, ret>>

\* the members l once average(fn) is over: the array that f returned for the
\* first member has received the additions, and it is the attribute b of the
\* first member when f is lambda d: d.b
MembersAfterAverage(fn, l) ==
    LET F == Apply(fn, l)
        st == AddMembers(Accumulators(F[1].items), F, 2)
    IN  IF fn # "b" THEN l
        ELSE Tabulate([k \in 1..Len(l) |->
                 IF k # 1 THEN l[k]
                 ELSE [g |-> l[1].g, s |-> l[1].s, n |-> l[1].n, v |-> l[1].v,
                       t |-> l[1].t, p |-> l[1].p, d |-> l[1].d, i |-> l[1].i,
                       c |-> l[1].c, m |-> l[1].m, ok |-> TRUE,
                       b |-> Tabulate([x \in 1..Len(l[1].b) |-> st.H[-1][x].n],
                                      Len(l[1].b))]], Len(l))

\* Sample.average(f) on the sample
CallAverage ==
    /\ dist # NoDist /\ dist.ok
    /\ call.f = "average" /\ ret = Pending
    /\ ret' = average(Apply(call.fn, dist.l))
    /\ dist' = [dist EXCEPT !.l = MembersAfterAverage(call.fn, dist.l)]
    /\ UNCHANGED <<args, call>>

\* analyze.calculate on the sample
CalculateOnSample ==
    /\ dist # NoDist /\ dist.ok /\ "l" \in DOMAIN dist
    /\ call.f = "calculate" /\ ret = Pending
    /\ ret' = calculate_on_sample(call.q, dist, call.r, call.kw, call.fresh)
    /\ UNCHANGED <<args, dist, call>>

InitSets ==
    /\ \/ ArgsOfAnyDistribution /\ call = NoCall
       \/ ArgsOfModelled /\ call = NoCall
       \/ ArgsOfSample /\ ArgsOfCallOnSample
    /\ dist = NoDist
    /\ ret = Pending

NextSets ==
    \/ ConstructDistribution \/ ConstructSample \/ ConstructFromModel
    \/ CallAverage \/ CalculateOnSample

\* a distribution is built, or a sample is built and one call is made on it
SpecSets == InitSets /\ [][NextSets]_vars

-----------------------------------------------------------------------------
(* Claims on distributions and samples, checked under SpecSets *)

\* the sum of the values f gave at position j for the first k members
RECURSIVE SumAt(_, _, _)
SumAt(F, j, k) ==
    IF k = 1 THEN F[1].items[j].val
    ELSE VAdd(F[1].items[j].kind, SumAt(F, j, k - 1), F[k].items[j].val)

\* the arithmetic mean of the results F, position by position
MeanOf(F) ==
    LET out == Tabulate([j \in 1..Len(F[1].items) |->
                   VDiv(F[1].items[j].kind, SumAt(F, j, Len(F)), Len(F))],
                   Len(F[1].items))
    IN  IF F[1].tuple THEN out ELSE out[1]

\* what calculate returns for each member of the sample
PerMember ==
    Tabulate([k \in 1..Len(dist.l) |->
        ItemsOf(call.q, k,
                calculate(call.q, dist.l[k], call.r, call.kw, call.fresh))],
        Len(dist.l))

IsSample == dist # NoDist /\ "l" \in DOMAIN dist

\* C11: Sample.average(f) returns the arithmetic mean of what f gives for
\* the members, position by position for a tuple, and what f gives for the
\* only member of a sample of size 1; analyze.calculate on a sample returns
\* the mean of what it returns for each member; the d and i of a sample
\* are the means of the d and i of its members.
C11_AverageIsMean ==
    /\ (IsSample /\ call.f = "average" /\ ret # Pending /\ ret.ok) =>
           /\ ret.val = MeanOf(Apply(call.fn, dist.l))
           /\ Len(dist.l) = 1 =>
                  ret.val = IF Apply(call.fn, dist.l)[1].tuple
                            THEN Tabulate([j \in 1..Len(Apply(call.fn, dist.l)[1].items) |->
                                     Apply(call.fn, dist.l)[1].items[j].val],
                                     Len(Apply(call.fn, dist.l)[1].items))
                            ELSE Apply(call.fn, dist.l)[1].items[1].val
    /\ (IsSample /\ call.f = "calculate" /\ ret # Pending /\ ret.ok) =>
           ret.val = MeanOf(PerMember)
    /\ IsSample =>
           /\ dist.d = MeanOf(DensityOf(dist.l))
           /\ dist.i = MeanOf(DistanceOf(dist.l))

-----------------------------------------------------------------------------
(* Claim on the edge consideration code, checked under SpecMMMM *)

EdgeConsiderations == {"NEC", "WOA", "PBC", "GBB"}

\* C12: for every edge consideration code other than 'NEC', 'WOA', 'PBC',
\* 'GBB', MMMM_cp_cm raises ValueError, no call of M and no call of
\* d.conditions has been made when it raises, and it returns no value.
C12_UnknownCodeRaises ==
    (call.f = "MMMM_cp_cm" /\ ret # Pending /\ call.ec \notin EdgeConsiderations) =>
        /\ ~ret.ok
        /\ ret.err = "ValueError"
        /\ ret.nM = 0
        /\ ret.cond = <<>>

-----------------------------------------------------------------------------
(* Claims on the constructors, checked under SpecSets *)

IsDistribution == "mp" \in DOMAIN args /\ dist # NoDist

\* C13: the constructor of a distribution given a size s <= 0 or a geometry
\* other than 'square' and 'circle' raises ValueError without having invoked
\* the model; the constructor of a sample given n <= 0 raises ValueError
\* without any member having been constructed (no invocation of the model).
C13_RejectedBeforeModel ==
    /\ (IsDistribution /\ (args.s <= 0 \/ args.g \notin {"square", "circle"})) =>
           /\ ~dist.ok
           /\ dist.err = "ValueError"
           /\ dist.m = 0
    /\ ("outs" \in DOMAIN args /\ dist # NoDist /\ args.n <= 0) =>
           /\ ~dist.ok
           /\ dist.err = "ValueError"
           /\ dist.m = 0

\* a constructor given the size 0 and a model that would return points has
\* raised ValueError before invoking it
C13_Witness ==
    /\ IsDistribution
    /\ args.s = 0 /\ args.g = "circle" /\ Len(args.mb) > 0
    /\ ~dist.ok /\ dist.err = "ValueError" /\ dist.m = 0

\* C14: every distribution constructed, whatever its boundary conditions
\* code, has d = len(d)/v, where len(d) is the number of senses it stores, and
\* i = 1/sqrt(d); when the model returns no point the constructor raises
\* ValueError.
C14_DensityIsLenOverVolume ==
    /\ (IsDistribution /\ dist.ok) =>
           /\ dist.d = RDiv(Int2Num(Len(dist.b)), dist.v)
           /\ dist.i = RInvSqrt(dist.d)
    /\ (IsDistribution /\ args.s > 0 /\ args.g \in {"square", "circle"}
           /\ Len(args.mb) = 0) =>
           /\ ~dist.ok
           /\ dist.err = "ValueError"

\* the codes that fit a geometry: None, 'IDBC' in a circle, 'PBCG<r>' and
\* 'PBCR<r>' in a square
Compatible(c, g) ==
    \/ c = NoCode
    \/ g = "circle" /\ c = [code |-> "IDBC", rank |-> 0]
    \/ g = "square" /\ c.code \in {"PBCG", "PBCR"}

\* what boundaries returns for the output of the model
Auxiliary(a) ==
    IF a.c.code = "IDBC" THEN IDBC(a.s, a.mp, a.mb, a.t).val
    ELSE PBCG(a.s, a.mp, a.mb, a.c.rank).val

-----------------------------------------------------------------------------
(* Direct calls of boundaries.IDBC and boundaries.PBCG *)

\* largest replication rank given to boundaries.PBCG
MaxRank == 2

\* the arguments of boundaries.IDBC: a circle of radius 2 and positions that
\* are lattice points whose image is a lattice point, the origin among them
ArgsOfIDBC ==
    \E p \in NonEmptySeqsUpTo({<<0, 0>>, <<1, 0>>, <<-1, 1>>, <<0, -2>>}, MaxPts),
       t \in {"screw", "edge"} :
        \E b \in [1..Len(p) -> {-1, 1}] :
            call = [f |-> "IDBC", s |-> 2, p |-> p, b |-> b, t |-> t]

\* the arguments of boundaries.PBCG: a square of side 3
ArgsOfPBCG ==
    \E p \in NonEmptySeqsUpTo({<<1, 1>>, <<0, 2>>}, MaxPts), r \in 0..MaxRank :
        \E b \in [1..Len(p) -> {-1, 1}] :
            call = [f |-> "PBCG", s |-> 3, p |-> p, b |-> b, r |-> r]

\* a call of boundaries.IDBC
CallIDBC ==
    /\ call.f = "IDBC" /\ ret = Pending
    /\ ret' = IDBC(call.s, call.p, call.b, call.t)
    /\ UNCHANGED <<args, dist, call>>

\* a call of boundaries.PBCG
CallPBCG ==
    /\ call.f = "PBCG" /\ ret = Pending
    /\ ret' = PBCG(call.s, call.p, call.b, call.r)
    /\ UNCHANGED <<args, dist, call>>

InitBoundaries ==
    /\ args = NoArgs
    /\ dist = NoDist
    /\ ArgsOfIDBC \/ ArgsOfPBCG
    /\ ret = Pending

NextBoundaries == CallIDBC \/ CallPBCG

\* one call of a function of boundaries
SpecBoundaries == InitBoundaries /\ [][NextBoundaries]_vars

-----------------------------------------------------------------------------
(* Claims on boundaries, checked under SpecBoundaries *)

\* the indices of the positions of p other than the origin, in order
RECURSIVE Producers(_, _)
Producers(p, n) ==
    IF n = 0 THEN <<>>
    ELSE IF p[n] # <<0, 0>> THEN Append(Producers(p, n - 1), n)
    ELSE Producers(p, n - 1)

\* q is on the ray of p # (0, 0) at the distance s^2/|p| of the origin:
\* q = p * s^2/|p|^2
IsImage(q, p, s) ==
    /\ q[1] * (p[1] * p[1] + p[2] * p[2]) = s * s * p[1]
    /\ q[2] * (p[1] * p[1] + p[2] * p[2]) = s * s * p[2]

\* C16: IDBC(s, p, b, 'screw') returns one image position per point other
\* than the origin and none for the origin, as many senses as positions, the
\* k-th sense being the opposite of the sense of the point that produced the
\* k-th position, this position at the radius s^2/rho on the ray of the
\* point; with another type it raises ValueError.
C16_OneImagePerPoint ==
    (call.f = "IDBC" /\ ret # Pending) =>
        /\ call.t = "screw" =>
            /\ ret.ok
            /\ Len(ret.val.p) = Len(Producers(call.p, Len(call.p)))
            /\ Len(ret.val.b) = Len(ret.val.p)
            /\ \A k \in 1..Len(ret.val.p) :
                   /\ k <= Len(ret.val.b) =>
                          ret.val.b[k] = -call.b[Producers(call.p, Len(call.p))[k]]
                   /\ IsImage(ret.val.p[k],
                              call.p[Producers(call.p, Len(call.p))[k]], call.s)
        /\ call.t # "screw" => ~ret.ok /\ ret.err = "ValueError"

\* the displacement of the k-th block of len(p) positions returned by PBCG,
\* read on its first position: (cp - p)/s
BlockDisplacement(k) ==
    LET q == ret.val.p[(k - 1) * Len(call.p) + 1]
    IN  <<(q[1] - call.p[1][1]) \div call.s, (q[2] - call.p[1][2]) \div call.s>>

\* max(|i|, |j|)
Chebyshev(u) == Max2(Abs(u[1]), Abs(u[2]))

\* the number of blocks returned by PBCG
Blocks == Len(ret.val.p) \div Len(call.p)

-----------------------------------------------------------------------------
(* models: RDD, ticks, even_positions, even_senses, RRDD *)

\* round(n/d) of Python for n >= 0 and d > 0: the nearest integer, the even
\* one when n/d is half way between two integers
RoundHalfEven(n, d) ==
    IF 2 * (n % d) < d THEN n \div d
    ELSE IF 2 * (n % d) > d THEN (n \div d) + 1
    ELSE IF (n \div d) % 2 = 0 THEN n \div d
    ELSE (n \div d) + 1

\* the numbers a generator returns, in quarters: the generator G is at the
\* position G.n of the stream of its seed
Streams == << <<0, 1>>, <<1, 0, 0>>, <<1, 3, 0, 2, 2>> >>

\* the i-th of the next numbers G.random returns, in quarters
Draw(G, i) == Streams[G.seed][1 + ((G.n + i - 1) % Len(Streams[G.seed]))]

\* the generator once k numbers have been drawn
Advance(G, k) == [G EXCEPT !.n = @ + k]

\* G.permutation(x): the shuffle the generator makes, which consumes as many
\* numbers as x has entries
Permutation(G, x) ==
    IF G.shuffle = "reverse" THEN Tabulate([i \in 1..Len(x) |-> x[Len(x) + 1 - i]], Len(x))
    ELSE x

\* np.concatenate((np.ones(nh), -np.ones(nh)))
HalfAndHalf(nh) == Tabulate([i \in 1..(2 * nh) |-> IF i <= nh THEN 1 ELSE -1], 2 * nh)

\* models.RDD from the number nh on: the senses, then the positions drawn in
\* the circle of radius s (s even, the numbers drawn being 0 or 1/4) or in
\* the square of side s (s a multiple of 4)
Scatter(g, s, nh, G) ==
    LET nt == 2 * nh
    IN  IF g = "circle"
        THEN [ok |-> TRUE, G |-> Advance(G, 2 * nt),
              val |-> [b |-> HalfAndHalf(nh),
                       p |-> Tabulate([i \in 1..nt |->
                                IF Draw(G, i) = 0
                                THEN <<(s \div 2) * Draw(G, nt + i), 0>>
                                ELSE <<0, (s \div 2) * Draw(G, nt + i)>>], nt)]]
        ELSE IF g = "square"
        THEN [ok |-> TRUE, G |-> Advance(G, 2 * nt),
              val |-> [b |-> HalfAndHalf(nh),
                       p |-> Tabulate([i \in 1..nt |->
                                <<(s \div 4) * Draw(G, 2 * i - 1),
                                  (s \div 4) * Draw(G, 2 * i)>>], nt)]]
        ELSE [ok |-> FALSE, err |-> "UnboundLocalError", G |-> G]

\* a model that takes the integer part of half the number of dislocations
RDD_Truncated(g, s, a, r, G) ==
    IF "d" \notin DOMAIN r THEN [ok |-> FALSE, err |-> "KeyError", G |-> G]
    ELSE Scatter(g, s, (r.d[1] * a) \div (2 * r.d[2]), G)

\* models.RDD(g, s, a, r, G) with the density r['d'] = r.d[1]/r.d[2]
RDD(g, s, a, r, G) ==
    IF "d" \notin DOMAIN r THEN [ok |-> FALSE, err |-> "KeyError", G |-> G]
    ELSE Scatter(g, s, RoundHalfEven(r.d[1] * a, 2 * r.d[2]), G)

\* models.ticks(g, l, s) with m = math.ceil(l/s): s*np.arange(-m, m+1) in a
\* circle, s*np.arange(m+1) in a square
ticks(g, l, s) ==
    LET m == -((-l) \div s)
    IN  IF g = "circle"
        THEN Tabulate([i \in 1..(2 * m + 1) |-> s * (i - 1 - m)], 2 * m + 1)
        ELSE Tabulate([i \in 1..(m + 1) |-> s * (i - 1)], m + 1)

\* models.even_positions(t, f): x = np.repeat(np.tile(t, len(t)), f) and
\* y = np.repeat(t, f*len(t)), stacked
even_positions(t, f) ==
    Tabulate([k \in 1..(f * Len(t) * Len(t)) |->
                 <<t[1 + (((k - 1) \div f) % Len(t))],
                   t[1 + ((k - 1) \div (f * Len(t)))]>>], f * Len(t) * Len(t))

\* senses split in two halves over the whole pattern
even_senses_Halves(t, f) == HalfAndHalf((f \div 2) * Len(t) * Len(t))

\* models.even_senses(t, f): np.tile(np.concatenate((bp, -bp)), len(t)**2)
\* with bp = np.ones(f//2)
even_senses(t, f) ==
    Concatenate([c \in 1..(Len(t) * Len(t)) |-> HalfAndHalf(f \div 2)],
                Len(t) * Len(t))

\* a filling that prefers the density to the filling given
Filling_DensityFirst(r) ==
    IF "d" \in DOMAIN r THEN RoundHalfEven(r.d[1] * r.s * r.s, r.d[2]) ELSE r.f

\* the filling f of models.RRDD: r['f'], or round(r['d']*r['s']**2)
Filling(r) ==
    IF "f" \in DOMAIN r THEN r.f ELSE RoundHalfEven(r.d[1] * r.s * r.s, r.d[2])

\* models.RRDD from the ticks on, for an even filling f: the positions of the
\* subareas plus r['s'] times the numbers drawn, the senses of the variant,
\* and the mask of the circle
Fill(g, s, r, f, G) ==
    LET t == SubSeq(ticks(g, s, r.s), 1, Len(ticks(g, s, r.s)) - 1)
        nt == f * Len(t) * Len(t)
        p == Tabulate([k \in 1..nt |->
                 <<even_positions(t, f)[k][1] + (r.s \div 4) * Draw(G, 2 * k - 1),
                   even_positions(t, f)[k][2] + (r.s \div 4) * Draw(G, 2 * k)>>], nt)
        b == IF r.v = "R" THEN Permutation(Advance(G, 2 * nt), HalfAndHalf(nt \div 2))
             ELSE even_senses(t, f)
        G2 == IF r.v = "R" THEN Advance(G, 3 * nt) ELSE Advance(G, 2 * nt)
        m == {k \in 1..nt : mask(g, s, p[k])}
    IN  IF r.v \notin {"R", "E"}
        THEN [ok |-> FALSE, err |-> "UnboundLocalError", G |-> G2]
        ELSE IF g = "circle"
        THEN [ok |-> TRUE, G |-> G2,
              val |-> [p |-> Masked(p, m, nt), b |-> Masked(b, m, nt)]]
        ELSE [ok |-> TRUE, G |-> G2, val |-> [p |-> p, b |-> b]]

\* models.RRDD(g, s, a, r, G)
RRDD(g, s, a, r, G) ==
    IF "f" \notin DOMAIN r /\ "d" \notin DOMAIN r
    THEN [ok |-> FALSE, err |-> "KeyError", G |-> G]
    ELSE IF Filling(r) % 2 # 0 THEN [ok |-> FALSE, err |-> "ValueError", G |-> G]
    ELSE Fill(g, s, r, Filling(r), G)

\* the position in its subarea, in eighths of nm, of the point of models.RCDD
\* drawn at (qx/4, qy/4) and sent to the wall brick m, for subareas of side c
\* and walls of thickness t: l1 = t/2 and l2 = c - l1
Brick(m, qx, qy, c, t) ==
    IF m = 0 THEN <<4 * t + (2 * c - t) * qx, t * qy>>
    ELSE IF m = 1 THEN <<(2 * c - t) * qx, 8 * c - 4 * t + t * qy>>
    ELSE IF m = 2 THEN <<t * qx, (2 * c - t) * qy>>
    ELSE <<8 * c - 4 * t + t * qx, 4 * t + (2 * c - t) * qy>>

\* r['l']/2 * (cos(phi), sin(phi)) in eighths of nm, for phi = 2*pi*q/4
HalfDipole(l, q) ==
    IF q = 0 THEN <<4 * l, 0>> ELSE IF q = 1 THEN <<0, 4 * l>>
    ELSE IF q = 2 THEN <<-4 * l, 0>> ELSE <<0, -4 * l>>

\* models.RCDD(g, s, a, r, G); the positions returned are in eighths of nm
RCDD(g, s, a, r, G) ==
    LET f == 2 * Max2(1, RoundHalfEven(Filling(r), 2))
        t == SubSeq(ticks(g, s, r.s), 1, Len(ticks(g, s, r.s)) - 1)
        nt == f * Len(t) * Len(t)
        nh == nt \div 2
        n == IF r.v = "D" THEN nh ELSE nt
        rp(k) == Brick(Draw(G, 2 * n + k), Draw(G, 2 * k - 1), Draw(G, 2 * k),
                       r.s, r.t)
        u(j) == HalfDipole(r.l, Draw(G, 3 * n + j))
        p == Tabulate([k \in 1..nt |->
                 IF r.v # "D"
                 THEN <<8 * even_positions(t, f)[k][1] + rp(k)[1],
                        8 * even_positions(t, f)[k][2] + rp(k)[2]>>
                 ELSE IF k % 2 = 1
                 THEN <<8 * even_positions(t, f)[k][1]
                            + rp((k + 1) \div 2)[1] + u((k + 1) \div 2)[1],
                        8 * even_positions(t, f)[k][2]
                            + rp((k + 1) \div 2)[2] + u((k + 1) \div 2)[2]>>
                 ELSE <<8 * even_positions(t, f)[k][1]
                            + rp(k \div 2)[1] - u(k \div 2)[1],
                        8 * even_positions(t, f)[k][2]
                            + rp(k \div 2)[2] - u(k \div 2)[2]>>], nt)
        b == IF r.v = "R" THEN Permutation(Advance(G, 3 * n), HalfAndHalf(nh))
             ELSE IF r.v = "E" THEN even_senses(t, f)
             ELSE Tabulate([k \in 1..nt |-> IF k % 2 = 1 THEN 1 ELSE -1], nt)
        G2 == IF r.v = "D" THEN Advance(G, 4 * n) ELSE IF r.v = "R"
              THEN Advance(G, 3 * n + nt) ELSE Advance(G, 3 * n)
        m == {k \in 1..nt : p[k][1] * p[k][1] + p[k][2] * p[k][2] < 64 * s * s}
    IN  IF "f" \notin DOMAIN r /\ "d" \notin DOMAIN r
        THEN [ok |-> FALSE, err |-> "KeyError", G |-> G]
        ELSE IF 2 * r.t > r.s THEN [ok |-> FALSE, err |-> "ValueError", G |-> G]
        ELSE IF r.v \notin {"R", "E", "D"}
        THEN [ok |-> FALSE, err |-> "UnboundLocalError", G |-> G2]
        ELSE IF g = "circle"
        THEN [ok |-> TRUE, G |-> G2,
              val |-> [p |-> Masked(p, m, nt), b |-> Masked(b, m, nt)]]
        ELSE [ok |-> TRUE, G |-> G2, val |-> [p |-> p, b |-> b]]

-----------------------------------------------------------------------------
(* Direct calls of models.RDD, models.RRDD and models.RCDD *)

\* largest filling r['f'] given to models.RRDD
MaxFill == 4

\* largest numerator of a density: r['d'] is a number of quarters for RDD and
\* of 32nds for RRDD
MaxDensity == 6

\* the generators given to a model: a stream, a position in it, a shuffle
Generators ==
    [seed : 1..Len(Streams), n : {0, 1}, shuffle : {"identity", "reverse"}]

\* the arguments of models.RDD; in a circle the numbers drawn are 0 or 1/4
ArgsOfRDD ==
    \E g \in {"circle", "square"}, a \in {2, 3, 4}, k \in 0..MaxDensity,
       G \in Generators :
        /\ g = "circle" => G.seed \in {1, 2}
        /\ G.shuffle = "identity"
        /\ call = [f |-> "RDD", g |-> g, s |-> 4, a |-> a,
                   r |-> [d |-> <<k, 4>>], G |-> G]

\* the parameters r of models.RRDD: the variant, the side of the subareas,
\* and the filling, the density, both or none of them
ParametersOfRRDD(v, side, f, k, given) ==
    IF given = "f" THEN [v |-> v, s |-> side, f |-> f]
    ELSE IF given = "d" THEN [v |-> v, s |-> side, d |-> <<k, 32>>]
    ELSE IF given = "fd" THEN [v |-> v, s |-> side, f |-> f, d |-> <<k, 32>>]
    ELSE [v |-> v, s |-> side]

\* the arguments of models.RRDD
ArgsOfRRDD ==
    \E g \in {"circle", "square"}, s \in {4, 6, 8}, v \in {"R", "E", "X"},
       f \in 0..MaxFill, k \in 0..MaxDensity, given \in {"f", "d", "fd", "none"},
       G \in Generators :
        /\ given \in {"d", "none"} => f = 0
        /\ given \in {"f", "none"} => k = 0
        /\ given = "fd" => k \in {2, 4}
        /\ v # "R" => G.shuffle = "identity"
        /\ g = "circle" => s = 4
        /\ call = [f |-> "RRDD", g |-> g, s |-> s, a |-> s * s,
                   r |-> ParametersOfRRDD(v, 4, f, k, given), G |-> G]

\* the arguments of models.RCDD: subareas of side 4, a wall thickness from 0
\* to 3 and, for the variant 'D', a dipole length up to 4 times the side
ArgsOfRCDD ==
    \E g \in {"circle", "square"}, s \in {4, 8}, v \in {"R", "E", "D", "X"},
       f \in 0..MaxFill, t \in 0..3, l \in {0, 2, 16}, G \in Generators :
        /\ v # "R" => G.shuffle = "identity"
        /\ v # "D" => l = 0
        /\ g = "circle" => s = 4
        /\ call = [f |-> "RCDD", g |-> g, s |-> s, a |-> s * s,
                   r |-> [v |-> v, s |-> 4, t |-> t, l |-> l, f |-> f], G |-> G]

\* a call of models.RDD
CallRDD ==
    /\ call.f = "RDD" /\ ret = Pending
    /\ ret' = RDD(call.g, call.s, call.a, call.r, call.G)
    /\ UNCHANGED <<args, dist, call>>

\* a call of models.RRDD
CallRRDD ==
    /\ call.f = "RRDD" /\ ret = Pending
    /\ ret' = RRDD(call.g, call.s, call.a, call.r, call.G)
    /\ UNCHANGED <<args, dist, call>>

\* a call of models.RCDD
CallRCDD ==
    /\ call.f = "RCDD" /\ ret = Pending
    /\ ret' = RCDD(call.g, call.s, call.a, call.r, call.G)
    /\ UNCHANGED <<args, dist, call>>

InitModels ==
    /\ args = NoArgs
    /\ dist = NoDist
    /\ ArgsOfRDD \/ ArgsOfRRDD \/ ArgsOfRCDD
    /\ ret = Pending

NextModels == CallRDD \/ CallRRDD \/ CallRCDD

\* one call of a model
SpecModels == InitModels /\ [][NextModels]_vars

-----------------------------------------------------------------------------
(* Claims on models, checked under SpecModels *)

\* the number of entries of b equal to x
CountOf(b, x) == Cardinality({i \in 1..Len(b) : b[i] = x})

\* C18 as stated: RDD returns N = round(density*area) points, floor(N/2) of
\* them of sense +1 and the others of sense -1, also when N is odd.
C18_RoundedCount ==
    (call.f = "RDD" /\ ret # Pending) =>
        /\ ret.ok
        /\ Len(ret.val.p) = RoundHalfEven(call.r.d[1] * call.a, call.r.d[2])
        /\ Len(ret.val.b) = Len(ret.val.p)
        /\ CountOf(ret.val.b, 1) = Len(ret.val.b) \div 2
        /\ CountOf(ret.val.b, -1) = Len(ret.val.b) - (Len(ret.val.b) \div 2)

\* C18: RDD returns an even number N = 2*nh of points, nh of them of sense +1
\* and nh of sense -1, where nh is the integer nearest to density*area/2,
\* the even one when density*area/2 is half way between two integers.
C18_EvenCount ==
    (call.f = "RDD" /\ ret # Pending) =>
        /\ ret.ok
        /\ Len(ret.val.b) = Len(ret.val.p)
        /\ CountOf(ret.val.b, 1) = CountOf(ret.val.b, -1)
        /\ CountOf(ret.val.b, 1) + CountOf(ret.val.b, -1) = Len(ret.val.b)
        /\ LET nh == CountOf(ret.val.b, 1)
               gap == Abs(2 * call.r.d[2] * nh - call.r.d[1] * call.a)
           IN  /\ gap <= call.r.d[2]
               /\ gap = call.r.d[2] => nh % 2 = 0

\* RDD has returned 4 points, 2 of each sense, for density*area = 3
C18_Witness ==
    /\ call.f = "RDD" /\ ret # Pending /\ ret.ok
    /\ call.r.d = <<6, 4>> /\ call.a = 2
    /\ Len(ret.val.p) = 4
    /\ CountOf(ret.val.b, 1) = 2 /\ CountOf(ret.val.b, -1) = 2

\* the number of subareas of a square of side s cut in subareas of side c
Subareas(s, c) == (-((-s) \div c)) * (-((-s) \div c))

\* C19: RRDD takes the filling f = r['f'] when 'f' is given, and
\* round(r['d']*r['s']^2) only when it is not; when this f is odd it raises
\* ValueError and the generator G is in the state it was given in; when it
\* is even the square gets f points per subarea.
C19_FillingAndParity ==
    (call.f = "RRDD" /\ ret # Pending
        /\ ("f" \in DOMAIN call.r \/ "d" \in DOMAIN call.r)) =>
        LET f == IF "f" \in DOMAIN call.r THEN call.r.f
                 ELSE RoundHalfEven(call.r.d[1] * call.r.s * call.r.s, call.r.d[2])
        IN  /\ f % 2 = 1 =>
                   /\ ~ret.ok
                   /\ ret.err = "ValueError"
                   /\ ret.G = call.G
            /\ f % 2 = 0 => (~ret.ok => ret.err # "ValueError")
            /\ (ret.ok /\ call.g = "square") =>
                   /\ f % 2 = 0
                   /\ Len(ret.val.p) = f * Subareas(call.s, call.r.s)

\* RRDD given the odd filling 3 and a density that gives the even filling 2
\* has raised ValueError without drawing
C19_Witness ==
    /\ call.f = "RRDD" /\ ret # Pending
    /\ "f" \in DOMAIN call.r /\ "d" \in DOMAIN call.r
    /\ call.r.f = 3 /\ call.r.d = <<4, 32>>
    /\ ~ret.ok /\ ret.err = "ValueError" /\ ret.G = call.G

\* the indices of the positions returned that are in the subarea of side c
\* whose lower left corner is (x, y)
InSubarea(P, x, y, c) ==
    {k \in 1..Len(P) : /\ x <= P[k][1] /\ P[k][1] < x + c
                       /\ y <= P[k][2] /\ P[k][2] < y + c}

\* the lower left corners of the subareas of a square of side s: the ticks
\* but the last
Corners(s, c) == {c * i : i \in 0..((-((-s) \div c)) - 1)}

\* C20: RRDD with the variant 'E' in a square returns, in every subarea,
\* exactly f points, f/2 of them of sense +1 and f/2 of sense -1; the points
\* of a subarea are f consecutive indices, the block of the subarea, and the
\* senses of the block are those of the points of the subarea.
C20_EvenSensesPerSubarea ==
    (call.f = "RRDD" /\ ret # Pending /\ ret.ok
        /\ call.r.v = "E" /\ call.g = "square") =>
        LET f == Len(ret.val.p) \div Subareas(call.s, call.r.s)
        IN  /\ Len(ret.val.b) = Len(ret.val.p)
            /\ \A x, y \in Corners(call.s, call.r.s) :
                   LET here == InSubarea(ret.val.p, x, y, call.r.s)
                   IN  /\ Cardinality(here) = f
                       /\ Cardinality({k \in here : ret.val.b[k] = 1}) = f \div 2
                       /\ Cardinality({k \in here : ret.val.b[k] = -1}) = f \div 2
                       /\ \A k1, k2 \in here : (k1 - 1) \div f = (k2 - 1) \div f

\* RRDD has returned, for the variant 'E' and a square of four subareas
\* filled with 2 points each, 8 points of which one is moved away from the
\* corner of its subarea
C20_Witness ==
    /\ call.f = "RRDD" /\ ret # Pending /\ ret.ok
    /\ call.r.v = "E" /\ call.g = "square" /\ call.s = 8
    /\ Len(ret.val.p) = 8
    /\ ret.val.b = <<1, -1, 1, -1, 1, -1, 1, -1>>
    /\ \E k \in 1..8 : ret.val.p[k][1] % 4 = 3

\* the largest length of dipole that fits a subarea whatever its walls: the
\* side of the subarea
DipoleBudget(r) == r.s

\* C21: RCDD raises instead of generating points when the wall thickness is
\* too large for the side of the subareas (t > s/2) and, in the variant 'D',
\* when the length of the dipoles exceeds what the walls and the side allow.
C21_InconsistentWallsRejected ==
    (call.f = "RCDD" /\ ret # Pending) =>
        /\ 2 * call.r.t > call.r.s => ~ret.ok /\ ret.err = "ValueError"
        /\ (call.r.v = "D" /\ call.r.l > DipoleBudget(call.r)) => ~ret.ok

-----------------------------------------------------------------------------
\* Generation from one random source

\* the call of the model a.m of the module models on the square of side a.s
\* with the random source G
ModelOutput(a, G) ==
    IF a.m = "RDD" THEN RDD(a.g, a.s, a.s * a.s, a.r, G)
    ELSE IF a.m = "RRDD" THEN RRDD(a.g, a.s, a.s * a.s, a.r, G)
    ELSE RCDD(a.g, a.s, a.s * a.s, a.r, G)

\* the random source after k calls of the model a.m that started with G
RECURSIVE SourceAfter(_, _, _)
SourceAfter(a, G, k) ==
    IF k = 0 THEN G ELSE ModelOutput(a, SourceAfter(a, G, k - 1)).G

\* d holds the pattern that the model a.m returns for the random source G
FromSource(d, a, G) ==
    /\ ModelOutput(a, G).ok
    /\ d.p = ModelOutput(a, G).val.p /\ d.b = ModelOutput(a, G).val.b

\* C22: a distribution or a sample constructed with a model of the module
\* models on a valid region is generated: the constructor gives the model a
\* random source and stores the pattern the model returns for it, and the
\* members of a sample draw one after the other from one source.
C22_GeneratedFromOneSource ==
    ("m" \in DOMAIN args /\ dist # NoDist /\ args.s > 0
        /\ args.g \in geometries) =>
        /\ dist.ok
        /\ \E G \in Generators :
              IF "n" \in DOMAIN args
              THEN \A k \in 1..args.n :
                       FromSource(dist.l[k], args, SourceAfter(args, G, k - 1))
              ELSE FromSource(dist, args, G)

-----------------------------------------------------------------------------
(* parallel: the processes of MPI.COMM_WORLD *)

\* the largest number of processes and the largest number that stands for
\* the object of a process
MaxProc == 2

MaxValue == 2

\* the master processor
root == 0

None == [t |-> "None"]

\* what a process executes in the call c, one statement after the other:
\* average_on_cores(w, b) is comm.Reduce followed by m = m/size on the root,
\* then comm.bcast when b; export(o) is the test of o.S,
\* i = average_on_cores(o.i, True), worker = analyze.calculate(...),
\* master = [average_on_cores(worker[i]) ...] and the return
Program(c) ==
    IF c.f = "average_on_cores"
    THEN <<"Reduce">> \o (IF c.b THEN <<"bcast">> ELSE <<>>) \o <<"return">>
    ELSE <<"seed", "Reduce", "bcast", "calculate", "Reduce", "Reduce",
           "Reduce", "return">>

\* the results (KKKK, gggg, GaGs) of analyze.calculate for the object of a
\* process, which is known by the number x and has o.i = x + 1
Worker(x) == <<Int2Num(x), Int2Num(x + 1), Int2Num(2 * x)>>

\* the value w that a process with the argument x and the local variables l
\* gives to the Reduce at statement k
Sent(x, c, l, k) ==
    IF c.f = "average_on_cores" THEN Int2Num(x)
    ELSE IF k = 2 THEN Int2Num(x + 1)
    ELSE l.worker[k - 4]

\* m = m/size on the root
Averaged_Sum(m, size) == m

Averaged(m, size) == RDiv(m, Int2Num(size))

\* the local variables once the call of average_on_cores that ends with the
\* statement k has returned m: export assigns i, then the entries of master
Assigned(l, c, k) ==
    IF c.f = "export" /\ k = 3 THEN [l EXCEPT !.pc = k + 1, !.i = l.m]
    ELSE IF c.f = "export" /\ k > 4
    THEN [l EXCEPT !.pc = k + 1, !.master = Append(@, l.m)]
    ELSE [l EXCEPT !.pc = k + 1]

\* a process at its first statement
Started ==
    [pc |-> 1, st |-> "running", m |-> None, i |-> None, worker |-> <<>>,
     master |-> <<>>, out |-> None]

\* the process of rank r is at a statement stmt
At(r, stmt) ==
    /\ call.f \in {"average_on_cores", "export"}
    /\ r \in DOMAIN ret /\ ret[r].st = "running"
    /\ Program(call)[ret[r].pc] = stmt

\* if rank==root and not o.S is None: the root reads o.S
Seed(r) ==
    /\ At(r, "seed")
    /\ ret' = [ret EXCEPT ![r] =
                IF r = root /\ ~call.hasS
                THEN [@ EXCEPT !.st = "raised", !.out = [t |-> "AttributeError"]]
                ELSE [@ EXCEPT !.pc = @ + 1]]
    /\ UNCHANGED <<args, dist, call>>

\* the sum of the values of the processes 0..n-1
RECURSIVE Summed(_, _)
Summed(all, n) == IF n = 0 THEN Zero ELSE RAdd(Summed(all, n - 1), all[n - 1])

\* comm.Reduce([w, MPI.DOUBLE], [m, MPI.DOUBLE], op=MPI.SUM, root=root): a
\* worker gives w and goes on with m = None; the root goes on when every w
\* is there, with their sum, which it divides by size
Reduce(r) ==
    /\ At(r, "Reduce")
    /\ LET k == ret[r].pc
           w == Sent(args[r], call, ret[r], k)
           all == [x \in DOMAIN ret |-> IF x = r THEN w ELSE dist[k][x]]
           size == Cardinality(DOMAIN ret)
           m == IF r = root THEN Averaged(Summed(all, size), size) ELSE None
       IN  /\ r = root => \A x \in DOMAIN ret : all[x] # None
           /\ ret' = [ret EXCEPT ![r] =
                        IF k + 1 <= Len(Program(call))
                           /\ Program(call)[k + 1] = "bcast"
                        THEN [@ EXCEPT !.pc = k + 1, !.m = m]
                        ELSE Assigned([@ EXCEPT !.m = m], call, k)]
           /\ dist' = [dist EXCEPT ![k][r] = w]
    /\ UNCHANGED <<args, call>>

\* m = comm.bcast(m, root=root): the root gives its m, a worker goes on when
\* the m of the root is there and takes it
Bcast(r) ==
    /\ At(r, "bcast")
    /\ LET k == ret[r].pc
       IN  IF r = root
           THEN /\ dist' = [dist EXCEPT ![k][r] = ret[r].m]
                /\ ret' = [ret EXCEPT ![r] = Assigned(@, call, k)]
           ELSE /\ dist[k][root] # None
                /\ ret' = [ret EXCEPT ![r] =
                            Assigned([@ EXCEPT !.m = dist[k][root]], call, k)]
                /\ UNCHANGED dist
    /\ UNCHANGED <<args, call>>

\* worker = analyze.calculate(fun, o, intrad, ec=edgcon)
CalculateOnCore(r) ==
    /\ At(r, "calculate")
    /\ ret' = [ret EXCEPT ![r].pc = @ + 1, ![r].worker = Worker(args[r])]
    /\ UNCHANGED <<args, dist, call>>

\* return m in average_on_cores; in export the root returns the averages
\* with intrad, a worker reaches the end of the function and returns None
ReturnOnCore(r) ==
    /\ At(r, "return")
    /\ ret' = [ret EXCEPT ![r].st = "returned",
                 ![r].out = IF call.f = "average_on_cores" THEN ret[r].m
                            ELSE IF r = root
                            THEN [t |-> "tuple", master |-> ret[r].master]
                            ELSE None]
    /\ UNCHANGED <<args, dist, call>>

\* the calls of average_on_cores and of export by size processes: args[r] is
\* the number held by the process of rank r, w for average_on_cores, and the
\* number of its object o for export; hasS tells whether o has the attribute
\* S, which the constructors of sets.py never set
ArgsOfParallel ==
    \E size \in 1..MaxProc :
        /\ args \in [0..size - 1 -> 0..MaxValue]
        /\ \/ \E b \in BOOLEAN : call = [f |-> "average_on_cores", b |-> b]
           \/ \E h \in BOOLEAN : call = [f |-> "export", hasS |-> h]
        /\ ret = [r \in 0..size - 1 |-> Started]
        /\ dist = [k \in 1..Len(Program(call)) |->
                      [r \in 0..size - 1 |-> None]]

InitParallel == ArgsOfParallel

\* the statement the process of rank r is at
StepOnCore(r) ==
    \/ Seed(r) \/ Reduce(r) \/ Bcast(r) \/ CalculateOnCore(r)
    \/ ReturnOnCore(r)

NextParallel == \E r \in 0..MaxProc - 1 : StepOnCore(r)

SpecParallel == InitParallel /\ [][NextParallel]_vars

\* each process runs on its own core: a process that can execute its
\* statement executes it in the end
SpecParallelFair ==
    SpecParallel /\ \A r \in 0..MaxProc - 1 : WF_vars(StepOnCore(r))

-----------------------------------------------------------------------------
\* Averages over the processes

\* (w_0 + ... + w_{size-1})/size for the numbers w the processes hold
MeanOfCores(w) ==
    RDiv(Summed([x \in DOMAIN w |-> Int2Num(w[x])], Cardinality(DOMAIN w)),
         Int2Num(Cardinality(DOMAIN w)))

\* C24: average_on_cores(w, b) returns on the root the sum of the w of all
\* the processes divided by their number; when b is False every other
\* process returns None, and when b is True every process returns that same
\* average.
C24_AverageOnCores ==
    call.f = "average_on_cores" =>
        \A r \in DOMAIN ret :
            ret[r].st = "returned" =>
                IF r = root \/ call.b THEN ret[r].out = MeanOfCores(args)
                ELSE ret[r].out = None

C24_Witness ==
    /\ call.f = "average_on_cores" /\ call.b
    /\ DOMAIN ret = {0, 1} /\ args[0] = 1 /\ args[1] = 2
    /\ \A r \in DOMAIN ret : ret[r].st = "returned" /\ ret[r].out = Fin(3, 2, 0)

\* every process has returned from export, the root with the averages over
\* the processes of KKKK, gggg and GaGs, the others with None
ExportReturned ==
    \A r \in DOMAIN ret :
        /\ ret[r].st = "returned"
        /\ IF r = root
           THEN ret[r].out =
                    [t |-> "tuple",
                     master |-> <<MeanOfCores(args),
                                  MeanOfCores([x \in DOMAIN args |-> args[x] + 1]),
                                  MeanOfCores([x \in DOMAIN args |-> 2 * args[x]])>>]
           ELSE ret[r].out = None

\* C25: in export no process waits forever: every process goes through the
\* same collectives and returns, the root with the averaged quantities and
\* every other process with None.
C25_EveryProcessReturns == (call.f = "export") ~> ExportReturned

-----------------------------------------------------------------------------
(* Direct calls of overlap.circle_circle, overlap.circle_square and
   Distribution.w *)

\* the largest radius and the largest side
MaxRadius == 4

MaxSide == 3

\* circle_circle(rA, rB, d, rA**2, rB**2, d**2) for two radii and a squared
\* distance between the centers
ArgsOfCircleCircle ==
    \E rA, rB \in 0..MaxRadius, d2 \in 0..(MaxRadius * MaxRadius + 1) :
        call = [f |-> "circle_circle", rA |-> rA, rB |-> rB, d2 |-> d2]

\* circle_square(x, y, r, r**2, s) for a center in the square of side s
ArgsOfCircleSquare ==
    \E s \in 1..MaxSide, r \in 0..MaxRadius :
        \E x, y \in 0..s :
            call = [f |-> "circle_square", x |-> x, y |-> y, r |-> r, s |-> s]

\* d.w(a, r, r**2) for a distribution d of geometry g and size s, a
\* position a in the region and two radii
ArgsOf_w ==
    \E g \in geometries, s \in 1..MaxSide, r1, r2 \in 0..MaxRadius :
        \E x, y \in 0..s :
            /\ r1 <= r2
            /\ mask(g, s, <<x, y>>) \/ x * y = 0
            /\ call = [f |-> "w", g |-> g, s |-> s, a |-> <<x, y>>,
                       r |-> <<r1, r2>>]

CallCircleCircle ==
    /\ call.f = "circle_circle" /\ ret = Pending
    /\ ret' = Return(circle_circle(call.rA, call.rB, call.rA * call.rA,
                                   call.rB * call.rB, call.d2))
    /\ UNCHANGED <<args, dist, call>>

CallCircleSquare ==
    /\ call.f = "circle_square" /\ ret = Pending
    /\ ret' = Return(circle_square(call.x, call.y, call.r, call.r * call.r,
                                   call.s))
    /\ UNCHANGED <<args, dist, call>>

Call_w ==
    /\ call.f = "w" /\ ret = Pending
    /\ ret' = Return(Distribution_w([g |-> call.g, s |-> call.s], call.a,
                                    call.r, Square(call.r)))
    /\ UNCHANGED <<args, dist, call>>

InitOverlap ==
    /\ args = NoArgs /\ dist = NoDist /\ ret = Pending
    /\ ArgsOfCircleCircle \/ ArgsOfCircleSquare \/ ArgsOf_w

NextOverlap == CallCircleCircle \/ CallCircleSquare \/ Call_w

SpecOverlap == InitOverlap /\ [][NextOverlap]_vars

-----------------------------------------------------------------------------
\* Overlap of two disks

-----------------------------------------------------------------------------
\* Overlap of a disk and a square

\* the distance from (x, y) to the nearest side of the square of side s
ToNearestSide(x, y, s) ==
    LET m(u, v) == IF u <= v THEN u ELSE v
    IN  m(m(x, y), m(s - x, s - y))

\* the squared distance from (x, y) to the farthest corner of the square
ToFarthestCorner2(x, y, s) ==
    LET m(u, v) == IF u >= v THEN u ELSE v
    IN  m(x, s - x) * m(x, s - x) + m(y, s - y) * m(y, s - y)

\* C30: for a center in the square, circle_square returns pi*r^2 when the
\* disk is wholly inside the square and s^2 when the four corners are
\* within the distance r of the center; the weight of Distribution.w is 1
\* for a neighbourhood wholly inside a square region and 1 at radius 0.
C30_ExactExtremes ==
    /\ (call.f = "circle_square" /\ ret # Pending) =>
        /\ call.r <= ToNearestSide(call.x, call.y, call.s) =>
               ret.val = Fin(call.r * call.r, 1, 1)
        /\ ToFarthestCorner2(call.x, call.y, call.s) <= call.r * call.r =>
               ret.val = Int2Num(call.s * call.s)
    /\ (call.f = "w" /\ ret # Pending) =>
        \A k \in 1..Len(call.r) :
            /\ call.r[k] = 0 => ret.val[k] = One
            /\ (call.g = "square"
                  /\ call.r[k] <= ToNearestSide(call.a[1], call.a[2], call.s)) =>
                   ret.val[k] = One

C30_Witness ==
    /\ call.f = "circle_square" /\ ret # Pending
    /\ call.s = 2 /\ call.x = 1 /\ call.y = 1 /\ call.r = 2
    /\ ret.val = Int2Num(4)

-----------------------------------------------------------------------------
\* The index of the radii in N

\* C26: N returns for every a, B and non-empty r2, ascending or not: the
\* index j never goes past the last element of r2 (no IndexError), because
\* only the distances up to r2[-1] are browsed; for an ascending r2 the
\* counts do not decrease.
C26_IndexWithinRadii ==
    (call.f = "N" /\ ret # Pending /\ Len(call.r2) > 0) =>
        /\ ret.ok
        /\ Len(ret.val) = Len(call.r2)
        /\ Ascending(call.r2) =>
               \A k \in 1..Len(ret.val) - 1 : ret.val[k] <= ret.val[k + 1]

C26_Witness ==
    /\ call.f = "N" /\ ret # Pending /\ ret.ok
    /\ ~Ascending(call.r2)
    /\ \E i \in 1..Len(call.B) :
           /\ SqDist(call.a, call.B[i]) > call.r2[Len(call.r2)]
           /\ \E k \in 1..Len(call.r2) : SqDist(call.a, call.B[i]) <= call.r2[k]
    /\ ret.val[Len(ret.val)] > 0

-----------------------------------------------------------------------------
\* The arrays given to the stages

\* C27: the stages leave the arrays they are given unchanged: the array dr
\* given to GaGs_dMMMM holds the same values when the call is over.
C27_InputsUnchanged ==
    (call.f = "GaGs_dMMMM" /\ ret # Pending) => ret.dr = call.dr

-----------------------------------------------------------------------------
\* The members of a sample after an average

\* C28: Sample.average(f) leaves every member of the sample as the
\* constructor made it, also when f returns an array that the member holds
\* (lambda d: d.b): the positions and the senses of the first member are
\* unchanged, and a second call of average gives the same result.
C28_MembersUnchanged ==
    (call.f = "average" /\ ret # Pending) =>
        /\ dist = Sample(args)
        /\ average(Apply(call.fn, dist.l)) = ret

-----------------------------------------------------------------------------
\* The positions of RRDD and the region of interest

\* C29: every position RRDD returns is in the region asked for, 0 <= x, y <=
\* size in a square and at a distance below size of the center in a circle,
\* whatever the side of the subareas, also when it does not divide the size.
C29_PositionsInRegion ==
    (call.f = "RRDD" /\ ret # Pending /\ ret.ok) =>
        \A k \in 1..Len(ret.val.p) :
            LET x == ret.val.p[k][1]
                y == ret.val.p[k][2]
            IN  IF call.g = "square"
                THEN 0 <= x /\ x <= call.s /\ 0 <= y /\ y <= call.s
                ELSE x * x + y * y < call.s * call.s

=============================================================================